---- MODULE Spec2Model ----
(***************************************************************************)
(* ConfigValidator (validation/validator.py): schema loading, schema       *)
(* resolution per client type, structural validation and the semantic      *)
(* rules, as a state machine over a schema directory and a validator.      *)
(***************************************************************************)
EXTENDS Integers, Sequences, FiniteSets, TLC

(***************************************************************************)
(* JSON values as Python holds them after json.load(s).  An object keeps   *)
(* its pairs in insertion order, as a Python dict does; keys are distinct. *)
(***************************************************************************)
JNull == [t |-> "null"]
JBool(b) == [t |-> "bool", b |-> b]
JNum(n) == [t |-> "num", n |-> n]
JStr(s) == [t |-> "str", s |-> s]
JList(items) == [t |-> "list", items |-> items]
JObj(kv) == [t |-> "obj", kv |-> kv]

\* Outcome of evaluating a Python expression: a value, or an exception.
Ok(v) == [ok |-> TRUE, val |-> v]
Raise(e) == [ok |-> FALSE, exc |-> e]

HasKey(o, k) == \E i \in 1..Len(o.kv) : o.kv[i][1] = k
Lookup(o, k) == o.kv[CHOOSE i \in 1..Len(o.kv) : o.kv[i][1] = k][2]

\* d[k] = v on a dict: an existing key keeps its position, a new key is appended.
SetKey(kv, k, v) ==
    IF \E i \in 1..Len(kv) : kv[i][1] = k
    THEN [i \in 1..Len(kv) |-> IF kv[i][1] = k THEN <<k, v>> ELSE kv[i]]
    ELSE Append(kv, <<k, v>>)

(***************************************************************************)
(* JSON text, as the sequence of its lexical tokens: punctuation, string   *)
(* literals, number literals and bare words (null, true, false, or junk).  *)
(***************************************************************************)
P(c) == [k |-> "punct", c |-> c]
TStr(s) == [k |-> "string", s |-> s]
TNum(n) == [k |-> "number", n |-> n]
TWord(w) == [k |-> "word", w |-> w]

IsP(toks, pos, c) == pos <= Len(toks) /\ toks[pos].k = "punct" /\ toks[pos].c = c

PFail == [ok |-> FALSE]
POk(v, pos) == [ok |-> TRUE, val |-> v, pos |-> pos]

RECURSIVE ParseValue(_, _), ParseElems(_, _, _), ParseMembers(_, _, _)
\* json.loads' decoder, one value starting at toks[pos]; pos of the result is
\* the position after the value.
ParseValue(toks, pos) ==
    IF pos > Len(toks) THEN PFail
    ELSE LET tk == toks[pos] IN
      CASE tk.k = "string" -> POk(JStr(tk.s), pos + 1)
        [] tk.k = "number" -> POk(JNum(tk.n), pos + 1)
        [] tk.k = "word" ->
             IF tk.w = "null" THEN POk(JNull, pos + 1)
             ELSE IF tk.w = "true" THEN POk(JBool(TRUE), pos + 1)
             ELSE IF tk.w = "false" THEN POk(JBool(FALSE), pos + 1)
             ELSE PFail
        [] tk.k = "punct" ->
             IF tk.c = "[" THEN
                 IF IsP(toks, pos + 1, "]") THEN POk(JList(<<>>), pos + 2)
                 ELSE ParseElems(toks, pos + 1, <<>>)
             ELSE IF tk.c = "{" THEN
                 IF IsP(toks, pos + 1, "}") THEN POk(JObj(<<>>), pos + 2)
                 ELSE ParseMembers(toks, pos + 1, <<>>)
             ELSE PFail

\* The elements of an array after "[" or ",": value, then "," or "]".
ParseElems(toks, pos, acc) ==
    LET e == ParseValue(toks, pos) IN
    IF ~e.ok THEN PFail
    ELSE IF IsP(toks, e.pos, "]") THEN POk(JList(Append(acc, e.val)), e.pos + 1)
    ELSE IF IsP(toks, e.pos, ",") THEN ParseElems(toks, e.pos + 1, Append(acc, e.val))
    ELSE PFail

\* The members of an object after "{" or ",": string ":" value, then "," or "}".
\* A repeated key overwrites the earlier value (dict assignment).
ParseMembers(toks, pos, acc) ==
    IF ~(pos <= Len(toks) /\ toks[pos].k = "string") THEN PFail
    ELSE IF ~IsP(toks, pos + 1, ":") THEN PFail
    ELSE LET e == ParseValue(toks, pos + 2) IN
      IF ~e.ok THEN PFail
      ELSE LET kv == SetKey(acc, toks[pos].s, e.val) IN
        IF IsP(toks, e.pos, "}") THEN POk(JObj(kv), e.pos + 1)
        ELSE IF IsP(toks, e.pos, ",") THEN ParseMembers(toks, e.pos + 1, kv)
        ELSE PFail

\* json.loads without the check for text after the value
json_loads_allow_trailing(toks) ==
    LET r == ParseValue(toks, 1) IN
    IF r.ok THEN Ok(r.val) ELSE Raise("JSONDecodeError")

\* json.loads(text): the value, or JSONDecodeError (also on trailing data).
json_loads(toks) ==
    LET r == ParseValue(toks, 1) IN
    IF r.ok /\ r.pos = Len(toks) + 1 THEN Ok(r.val) ELSE Raise("JSONDecodeError")

RECURSIVE Dump(_), DumpElems(_, _), DumpMembers(_, _)
\* The JSON text of a value (the writer of the documents and schema files).
Dump(v) ==
    CASE v.t = "null" -> <<TWord("null")>>
      [] v.t = "bool" -> <<TWord(IF v.b THEN "true" ELSE "false")>>
      [] v.t = "num" -> <<TNum(v.n)>>
      [] v.t = "str" -> <<TStr(v.s)>>
      [] v.t = "list" -> <<P("[")>> \o DumpElems(v.items, 1) \o <<P("]")>>
      [] v.t = "obj" -> <<P("{")>> \o DumpMembers(v.kv, 1) \o <<P("}")>>

DumpElems(items, i) ==
    IF i > Len(items) THEN <<>>
    ELSE (IF i > 1 THEN <<P(",")>> ELSE <<>>) \o Dump(items[i]) \o DumpElems(items, i + 1)

DumpMembers(kv, i) ==
    IF i > Len(kv) THEN <<>>
    ELSE (IF i > 1 THEN <<P(",")>> ELSE <<>>)
         \o <<TStr(kv[i][1]), P(":")>> \o Dump(kv[i][2]) \o DumpMembers(kv, i + 1)

(***************************************************************************)
(* The Python operations the semantic rules apply to a parsed document,    *)
(* with the exception each raises on a value of the wrong type.            *)
(***************************************************************************)
\* x in s for two strings: substring.  The strings of the model are the keys
\* and names below; the only one properly contained in another is "port".
IsSubstring(x, s) == x = s \/ (x = "port" /\ s = "listen_port")

\* key in c
PyIn(key, c) ==
    CASE c.t = "obj" -> Ok(HasKey(c, key))
      [] c.t = "list" -> Ok(\E i \in 1..Len(c.items) : c.items[i] = JStr(key))
      [] c.t = "str" -> Ok(IsSubstring(key, c.s))
      [] OTHER -> Raise("TypeError")

\* c[key] with a string key
PyGetItem(c, key) ==
    CASE c.t = "obj" -> IF HasKey(c, key) THEN Ok(Lookup(c, key)) ELSE Raise("KeyError")
      [] OTHER -> Raise("TypeError")

\* c.get(key, default)
PyDictGet(c, key, default) ==
    CASE c.t = "obj" -> Ok(IF HasKey(c, key) THEN Lookup(c, key) ELSE default)
      [] OTHER -> Raise("AttributeError")

\* bool(v)
PyTruthy(v) ==
    CASE v.t = "null" -> FALSE
      [] v.t = "bool" -> v.b
      [] v.t = "num" -> v.n # 0
      [] v.t = "str" -> v.s # ""
      [] v.t = "list" -> v.items # <<>>
      [] v.t = "obj" -> v.kv # <<>>

\* iter(v): a list gives its items, a dict its keys.  (No document of the
\* model holds a string where the rules iterate.)
PyIter(v) ==
    CASE v.t = "list" -> Ok(v.items)
      [] v.t = "obj" -> Ok([i \in 1..Len(v.kv) |-> JStr(v.kv[i][1])])
      [] v.t \in {"null", "bool", "num"} -> Raise("TypeError")

\* hash(v): lists and dicts are unhashable
PyHashable(v) == v.t \notin {"list", "obj"}

\* 1 <= port <= 65535
PyPortInRange(port) ==
    CASE port.t = "num" -> Ok(1 <= port.n /\ port.n <= 65535)
      [] port.t = "bool" -> Ok(port.b)
      [] OTHER -> Raise("TypeError")

(***************************************************************************)
(* Error entries.  Each f-string of the source is a record holding its     *)
(* fixed text and the values formatted into it.                            *)
(***************************************************************************)
InvalidJSON == [msg |-> "Invalid JSON"]
NoSchemaFound(client_type) == [msg |-> "No schema found for client type", client_type |-> client_type]
ValidationErrorEntry(m) == [msg |-> "Validation error", detail |-> m]
SchemaErrorEntry(m) == [msg |-> "Schema error", detail |-> m]
UnexpectedErrorEntry(m) == [msg |-> "Unexpected error", detail |-> m]
MissingList(client, what) == [msg |-> "configuration must have at least one", client |-> client, what |-> what]
InvalidPort(port, i) == [msg |-> "Invalid port", port |-> port, inbound |-> i]
UndefinedProxy(group, proxy) == [msg |-> "references undefined proxy", group |-> group, proxy |-> proxy]

(***************************************************************************)
(* The semantic rules.                                                     *)
(***************************************************************************)
\* "K" not in config or not config["K"]
MissingOrEmpty(config, K) ==
    LET has == PyIn(K, config) IN
    IF ~has.ok THEN has
    ELSE IF ~has.val THEN Ok(TRUE)
    ELSE LET v == PyGetItem(config, K) IN
         IF ~v.ok THEN v ELSE Ok(~PyTruthy(v.val))

RECURSIVE PortLoop(_, _, _)
\* for i, inbound in enumerate(items): if field in inbound: port = inbound[field];
\* if not (1 <= port <= 65535): errors.append(...).  i counts from 1 here; the
\* reported index is i - 1.
PortLoop(items, field, i) ==
    IF i > Len(items) THEN Ok(<<>>)
    ELSE LET inbound == items[i]
             has == PyIn(field, inbound)
         IN IF ~has.ok THEN has
            ELSE LET port == PyGetItem(inbound, field)
                     inRange == PyPortInRange(port.val)
                     here == IF ~has.val THEN Ok(<<>>)
                             ELSE IF ~port.ok THEN port
                             ELSE IF ~inRange.ok THEN inRange
                             ELSE IF inRange.val THEN Ok(<<>>)
                             ELSE Ok(<<InvalidPort(port.val, i - 1)>>)
                     rest == PortLoop(items, field, i + 1)
                 IN IF ~here.ok THEN here
                    ELSE IF ~rest.ok THEN rest
                    ELSE Ok(here.val \o rest.val)

\* if "inbounds" in config: for i, inbound in enumerate(config["inbounds"]): ...
InboundPorts(config, field) ==
    LET has == PyIn("inbounds", config) IN
    IF ~has.ok THEN has
    ELSE IF ~has.val THEN Ok(<<>>)
    ELSE LET inb == PyGetItem(config, "inbounds") IN
         IF ~inb.ok THEN inb
         ELSE LET items == PyIter(inb.val) IN
              IF ~items.ok THEN items ELSE PortLoop(items.val, field, 1)

validate_singbox_semantics(config) ==
    LET missing == MissingOrEmpty(config, "outbounds")
        ports == InboundPorts(config, "listen_port")
    IN IF ~missing.ok THEN missing
       ELSE IF ~ports.ok THEN ports
       ELSE Ok((IF missing.val THEN <<MissingList("sing-box", "outbound")>> ELSE <<>>)
               \o ports.val)

validate_xray_semantics(config) ==
    LET missing == MissingOrEmpty(config, "outbounds")
        ports == InboundPorts(config, "port")
    IN IF ~missing.ok THEN missing
       ELSE IF ~ports.ok THEN ports
       ELSE Ok((IF missing.val THEN <<MissingList("xray", "outbound")>> ELSE <<>>)
               \o ports.val)

RECURSIVE ProxyNames(_, _)
\* {p["name"] for p in proxies}: the set of names, from item i on
ProxyNames(proxies, i) ==
    IF i > Len(proxies) THEN Ok({})
    ELSE LET name == PyGetItem(proxies[i], "name") IN
         IF ~name.ok THEN name
         ELSE IF ~PyHashable(name.val) THEN Raise("TypeError")
         ELSE LET rest == ProxyNames(proxies, i + 1) IN
              IF ~rest.ok THEN rest ELSE Ok({name.val} \cup rest.val)

RECURSIVE MemberLoop(_, _, _, _)
\* for proxy in members: if proxy not in proxy_names: errors.append(f"... {group['name']} ... {proxy}")
MemberLoop(group, members, names, j) ==
    IF j > Len(members) THEN Ok(<<>>)
    ELSE LET proxy == members[j]
             gname == PyGetItem(group, "name")
             here == IF ~PyHashable(proxy) THEN Raise("TypeError")
                     ELSE IF proxy \in names THEN Ok(<<>>)
                     ELSE IF ~gname.ok THEN gname
                     ELSE Ok(<<UndefinedProxy(gname.val, proxy)>>)
             rest == MemberLoop(group, members, names, j + 1)
         IN IF ~here.ok THEN here
            ELSE IF ~rest.ok THEN rest
            ELSE Ok(here.val \o rest.val)

RECURSIVE GroupLoop(_, _, _)
\* for group in groups: for proxy in group.get("proxies", []): ...
GroupLoop(groups, names, g) ==
    IF g > Len(groups) THEN Ok(<<>>)
    ELSE LET group == groups[g]
             got == PyDictGet(group, "proxies", JList(<<>>))
             members == PyIter(got.val)
             here == IF ~got.ok THEN got
                     ELSE IF ~members.ok THEN members
                     ELSE MemberLoop(group, members.val, names, 1)
             rest == GroupLoop(groups, names, g + 1)
         IN IF ~here.ok THEN here
            ELSE IF ~rest.ok THEN rest
            ELSE Ok(here.val \o rest.val)

\* if "proxy-groups" in config: proxy_names = {...}; for group in config["proxy-groups"]: ...
GroupReferences(config) ==
    LET has == PyIn("proxy-groups", config) IN
    IF ~has.ok THEN has
    ELSE IF ~has.val THEN Ok(<<>>)
    ELSE LET plist == PyDictGet(config, "proxies", JList(<<>>))
             proxies == PyIter(plist.val)
             names == ProxyNames(proxies.val, 1)
             glist == PyGetItem(config, "proxy-groups")
             groups == PyIter(glist.val)
         IN IF ~plist.ok THEN plist
            ELSE IF ~proxies.ok THEN proxies
            ELSE IF ~names.ok THEN names
            ELSE IF ~glist.ok THEN glist
            ELSE IF ~groups.ok THEN groups
            ELSE GroupLoop(groups.val, names.val, 1)

\* the clash rule with the reference errors before the missing-list error
validate_clash_semantics_refs_first(config) ==
    LET missing == MissingOrEmpty(config, "proxies")
        refs == GroupReferences(config)
    IN IF ~missing.ok THEN missing
       ELSE IF ~refs.ok THEN refs
       ELSE Ok(refs.val
               \o (IF missing.val THEN <<MissingList("clash", "proxy")>> ELSE <<>>))

validate_clash_semantics(config) ==
    LET missing == MissingOrEmpty(config, "proxies")
        refs == GroupReferences(config)
    IN IF ~missing.ok THEN missing
       ELSE IF ~refs.ok THEN refs
       ELSE Ok((IF missing.val THEN <<MissingList("clash", "proxy")>> ELSE <<>>)
               \o refs.val)

\* the mihomo rule without the check of the group references
validate_mihomo_semantics_no_references(config) ==
    LET missing == MissingOrEmpty(config, "proxies") IN
    IF ~missing.ok THEN missing
    ELSE Ok(IF missing.val THEN <<MissingList("mihomo", "proxy")>> ELSE <<>>)

validate_mihomo_semantics(config) ==
    LET missing == MissingOrEmpty(config, "proxies")
        refs == GroupReferences(config)
    IN IF ~missing.ok THEN missing
       ELSE IF ~refs.ok THEN refs
       ELSE Ok((IF missing.val THEN <<MissingList("mihomo", "proxy")>> ELSE <<>>)
               \o refs.val)

\* _validate_semantics: the rule of the client type; none for any other string
validate_semantics(config_data, client_type) ==
    CASE client_type = "sing-box" -> validate_singbox_semantics(config_data)
      [] client_type = "clash" -> validate_clash_semantics(config_data)
      [] client_type = "xray" -> validate_xray_semantics(config_data)
      [] client_type = "mihomo" -> validate_mihomo_semantics(config_data)
      [] OTHER -> Ok(<<>>)

(***************************************************************************)
(* jsonschema.validate(instance, schema, cls=Draft202012Validator), for    *)
(* the keywords the schemas of the model use: type, required, $ref, $id.   *)
(***************************************************************************)
SimpleTypes == {"object", "array", "string", "number", "null", "boolean"}

IsListOfStrings(v) ==
    v.t = "list" /\ \A i \in 1..Len(v.items) : v.items[i].t = "str"

\* cls.check_schema(schema): the schema against the 2020-12 metaschema
SchemaWellFormed(schema) ==
    \/ schema.t = "bool"
    \/ /\ schema.t = "obj"
       /\ HasKey(schema, "$id") => Lookup(schema, "$id").t = "str"
       /\ HasKey(schema, "$ref") => Lookup(schema, "$ref").t = "str"
       /\ HasKey(schema, "type") =>
              /\ Lookup(schema, "type").t = "str"
              /\ Lookup(schema, "type").s \in SimpleTypes
       /\ HasKey(schema, "required") => IsListOfStrings(Lookup(schema, "required"))

TypeName(v) ==
    CASE v.t = "obj" -> "object"
      [] v.t = "list" -> "array"
      [] v.t = "str" -> "string"
      [] v.t = "num" -> "number"
      [] v.t = "null" -> "null"
      [] v.t = "bool" -> "boolean"

\* The keywords of a well-formed schema the instance violates.
Violations(instance, schema) ==
    IF schema.t = "bool" THEN (IF schema.b THEN {} ELSE {"false"})
    ELSE {kw \in {"type", "required"} :
            /\ HasKey(schema, kw)
            /\ \/ kw = "type" /\ TypeName(instance) # Lookup(schema, "type").s
               \/ /\ kw = "required"
                  /\ instance.t = "obj"
                  /\ \E i \in 1..Len(Lookup(schema, "required").items) :
                        ~HasKey(instance, Lookup(schema, "required").items[i].s)}

\* validate(...): "ok", or the exception raised.  A $ref of the model's
\* schemas points to no resource, so resolving it fails with an exception
\* that is neither ValidationError nor SchemaError.
jsonschema_validate(instance, schema) ==
    IF ~SchemaWellFormed(schema) THEN "SchemaError"
    ELSE IF schema.t = "obj" /\ HasKey(schema, "$ref") THEN "Exception"
    ELSE IF Violations(instance, schema) # {} THEN "ValidationError"
    ELSE "ok"

\* e.message of the exception validate raised
ErrorMessage(instance, schema) ==
    IF ~SchemaWellFormed(schema) THEN "metaschema"
    ELSE IF schema.t = "obj" /\ HasKey(schema, "$ref") THEN "unresolvable"
    ELSE IF "type" \in Violations(instance, schema) THEN "type"
    ELSE IF "required" \in Violations(instance, schema) THEN "required"
    ELSE "false schema"

(***************************************************************************)
(* The schema directory and the strings the validator derives from names.  *)
(***************************************************************************)
ClientTypes == {"sing-box", "clash", "xray", "mihomo", "unknown-client"}
SupportedClients == {"sing-box", "clash", "xray", "mihomo"}

FileNames == {"sing_box.schema.json", "unknown_client.schema.json"}

\* schema_mapping with a default identifier for every other client type
schema_mapping_default(client_type) ==
    CASE client_type = "sing-box" -> Ok("https://schemas.subbox.dev/sing-box.schema.json")
      [] client_type = "clash" -> Ok("https://schemas.subbox.dev/clash.schema.json")
      [] client_type = "xray" -> Ok("https://schemas.subbox.dev/xray.schema.json")
      [] client_type = "mihomo" -> Ok("https://schemas.subbox.dev/mihomo.schema.json")
      [] OTHER -> Ok("https://schemas.subbox.dev/sing-box.schema.json")

\* schema_mapping.get(client_type): the canonical identifier, or None
schema_mapping(client_type) ==
    CASE client_type = "sing-box" -> Ok("https://schemas.subbox.dev/sing-box.schema.json")
      [] client_type = "clash" -> Ok("https://schemas.subbox.dev/clash.schema.json")
      [] client_type = "xray" -> Ok("https://schemas.subbox.dev/xray.schema.json")
      [] client_type = "mihomo" -> Ok("https://schemas.subbox.dev/mihomo.schema.json")
      [] OTHER -> [ok |-> FALSE]

\* f"{client_type.replace('-', '_')}.schema.json", on the client types of the model
\* and on the keys the index of the model can hold
FallbackFileName(client_type) ==
    CASE client_type = "sing-box" -> "sing_box.schema.json"
      [] client_type = "clash" -> "clash.schema.json"
      [] client_type = "xray" -> "xray.schema.json"
      [] client_type = "mihomo" -> "mihomo.schema.json"
      [] client_type = "unknown-client" -> "unknown_client.schema.json"
      [] client_type = "sing_box.schema" -> "sing_box.schema.schema.json"
      [] client_type = "unknown_client.schema" -> "unknown_client.schema.schema.json"
      [] client_type = "https://schemas.subbox.dev/sing-box.schema.json" ->
            "https://schemas.subbox.dev/sing_box.schema.json.schema.json"
      [] client_type = "https://schemas.subbox.dev/clash.schema.json" ->
            "https://schemas.subbox.dev/clash.schema.json.schema.json"
      [] client_type = "https://schemas.subbox.dev/xray.schema.json" ->
            "https://schemas.subbox.dev/xray.schema.json.schema.json"
      [] client_type = "https://schemas.subbox.dev/mihomo.schema.json" ->
            "https://schemas.subbox.dev/mihomo.schema.json.schema.json"

\* Path.stem: the name without its last suffix
Stem(name) ==
    CASE name = "sing_box.schema.json" -> "sing_box.schema"
      [] name = "unknown_client.schema.json" -> "unknown_client.schema"

Absent == [kind |-> "absent"]
Unreadable == [kind |-> "unreadable"]
Text(toks) == [kind |-> "text", toks |-> toks]

\* with open(f) as f: json.load(f)
ReadJson(content) ==
    IF content.kind = "unreadable" THEN Raise("OSError") ELSE json_loads(content.toks)

(***************************************************************************)
(* self.schemas: a dict, as the sequence of its <<key, schema>> pairs in   *)
(* insertion order.  Keys are the values $id held, or the file stem.       *)
(***************************************************************************)
IndexHas(idx, key) == \E i \in 1..Len(idx) : idx[i][1] = key
IndexGet(idx, key) == idx[CHOOSE i \in 1..Len(idx) : idx[i][1] = key][2]

\* The body of the loop of _load_schemas for one file: any exception is
\* logged and the file skipped.
LoadOne(idx, name, content) ==
    LET schema == ReadJson(content)
        schema_id == PyDictGet(schema.val, "$id", JStr(Stem(name)))
    IN IF ~schema.ok THEN idx
       ELSE IF ~schema_id.ok THEN idx
       ELSE IF ~PyHashable(schema_id.val) THEN idx
       ELSE SetKey(idx, schema_id.val, schema.val)

\* Whether the loop body raises for a file.
LoadRaises(name, content) ==
    LET schema == ReadJson(content)
        schema_id == PyDictGet(schema.val, "$id", JStr(Stem(name)))
    IN ~schema.ok \/ ~schema_id.ok \/ ~PyHashable(schema_id.val)

RECURSIVE LoadLoopAbort(_, _, _, _)
\* The loop with the try around it instead of inside it: the first file that
\* raises ends the load.
LoadLoopAbort(idx, dir, order, i) ==
    IF i > Len(order) THEN idx
    ELSE IF LoadRaises(order[i], dir[order[i]]) THEN idx
    ELSE LoadLoopAbort(LoadOne(idx, order[i], dir[order[i]]), dir, order, i + 1)

RECURSIVE LoadLoop(_, _, _, _)
LoadLoop(idx, dir, order, i) ==
    IF i > Len(order) THEN idx
    ELSE LoadLoop(LoadOne(idx, order[i], dir[order[i]]), dir, order, i + 1)

\* _load_schemas that falls back to a built-in schema when the directory
\* does not exist
load_schemas_builtin_default(exists, dir, order) ==
    IF ~exists
    THEN << <<JStr("https://schemas.subbox.dev/sing-box.schema.json"),
              JObj(<< <<"type", JStr("object")>> >>)>> >>
    ELSE LoadLoop(<<>>, dir, order, 1)

\* _load_schemas: nothing if the directory does not exist; else every
\* *.schema.json file in the order glob yields them.
load_schemas(exists, dir, order) ==
    IF ~exists THEN <<>> ELSE LoadLoop(<<>>, dir, order, 1)

\* get_supported_clients: list(self.schemas.keys())
get_supported_clients(idx) == [i \in 1..Len(idx) |-> idx[i][1]]

FileExists(exists, dir, name) ==
    exists /\ name \in DOMAIN dir /\ dir[name].kind # "absent"

\* _get_schema_for_client with the two tiers swapped: the file first, the
\* index only if the file gives nothing
get_schema_for_client_file_first(idx, exists, dir, client_type) ==
    LET schema_id == schema_mapping(client_type)
        schema_file == FallbackFileName(client_type)
        loaded == ReadJson(dir[schema_file])
    IN IF FileExists(exists, dir, schema_file) /\ loaded.ok
       THEN [found |-> TRUE, schema |-> loaded.val, reads |-> <<schema_file>>]
       ELSE IF schema_id.ok /\ IndexHas(idx, JStr(schema_id.val))
       THEN [found |-> TRUE, schema |-> IndexGet(idx, JStr(schema_id.val)),
             reads |-> IF FileExists(exists, dir, schema_file) THEN <<schema_file>> ELSE <<>>]
       ELSE [found |-> FALSE,
             reads |-> IF FileExists(exists, dir, schema_file) THEN <<schema_file>> ELSE <<>>]

\* _get_schema_for_client: the schema (or None) and the files it opened
get_schema_for_client(idx, exists, dir, client_type) ==
    LET schema_id == schema_mapping(client_type)
        schema_file == FallbackFileName(client_type)
        loaded == ReadJson(dir[schema_file])
    IN IF schema_id.ok /\ IndexHas(idx, JStr(schema_id.val))
       THEN [found |-> TRUE, schema |-> IndexGet(idx, JStr(schema_id.val)), reads |-> <<>>]
       ELSE IF ~FileExists(exists, dir, schema_file)
       THEN [found |-> FALSE, reads |-> <<>>]
       ELSE IF loaded.ok
       THEN [found |-> TRUE, schema |-> loaded.val, reads |-> <<schema_file>>]
       ELSE [found |-> FALSE, reads |-> <<schema_file>>]

(***************************************************************************)
(* validate_config.  An input is text (a str) or structured data.  The     *)
(* value is the trace of the call: how it ended, the result dict, and what *)
(* each step did.                                                          *)
(***************************************************************************)
TextInput(toks) == [kind |-> "text", toks |-> toks]
DataInput(v) == [kind |-> "data", data |-> v]

\* a result that names the default client type, whatever was asked
NewResultDefaultClient(client_type) ==
    [valid |-> FALSE, errors |-> <<>>, warnings |-> <<>>, client_type |-> "sing-box"]

NewResult(client_type) ==
    [valid |-> FALSE, errors |-> <<>>, warnings |-> <<>>, client_type |-> client_type]

Returned(result, parsed, lookup, structural, semantic) ==
    [outcome |-> "returned", result |-> result, parsed |-> parsed, lookup |-> lookup,
     structural |-> structural, semantic |-> semantic]

Raised(exc, parsed, lookup, structural) ==
    [outcome |-> "raised", exc |-> exc, parsed |-> parsed, lookup |-> lookup,
     structural |-> structural]

NoLookup == [found |-> FALSE, reads |-> <<>>]

\* every failure of the structural step reported as a validation error
StructuralEntryAllValidation(outcome, message) ==
    IF outcome = "ok" THEN <<>> ELSE <<ValidationErrorEntry(message)>>

\* The entry the structural step appends for each exception validate raises.
StructuralEntry(outcome, message) ==
    CASE outcome = "ok" -> <<>>
      [] outcome = "ValidationError" -> <<ValidationErrorEntry(message)>>
      [] outcome = "SchemaError" -> <<SchemaErrorEntry(message)>>
      [] outcome = "Exception" -> <<UnexpectedErrorEntry(message)>>

\* validate_config that returns after a structural failure, without the
\* semantic rules
validate_config_early_return(idx, exists, dir, input, client_type) ==
    LET result == NewResult(client_type)
        parsed == IF input.kind = "text" THEN json_loads(input.toks) ELSE Ok(input.data)
        config_data == parsed.val
        lookup == get_schema_for_client(idx, exists, dir, client_type)
        structural == jsonschema_validate(config_data, lookup.schema)
        afterStructural ==
            [result EXCEPT !.valid = (structural = "ok"),
                           !.errors = StructuralEntry(structural,
                                          ErrorMessage(config_data, lookup.schema))]
        semantic_errors == validate_semantics(config_data, client_type)
    IN IF ~parsed.ok
       THEN Returned([result EXCEPT !.errors = <<InvalidJSON>>],
                     FALSE, NoLookup, "skipped", "skipped")
       ELSE IF ~lookup.found \/ ~PyTruthy(lookup.schema)
       THEN Returned([result EXCEPT !.errors = <<NoSchemaFound(client_type)>>],
                     TRUE, lookup, "skipped", "skipped")
       ELSE IF structural # "ok"
       THEN Returned(afterStructural, TRUE, lookup, structural, "skipped")
       ELSE IF ~semantic_errors.ok
       THEN Raised(semantic_errors.exc, TRUE, lookup, structural)
       ELSE Returned([afterStructural EXCEPT
                          !.errors = afterStructural.errors \o semantic_errors.val],
                     TRUE, lookup, structural, "ran")

validate_config(idx, exists, dir, input, client_type) ==
    LET result == NewResult(client_type)
        parsed == IF input.kind = "text" THEN json_loads(input.toks) ELSE Ok(input.data)
        config_data == parsed.val
        lookup == get_schema_for_client(idx, exists, dir, client_type)
        structural == jsonschema_validate(config_data, lookup.schema)
        afterStructural ==
            [result EXCEPT !.valid = (structural = "ok"),
                           !.errors = StructuralEntry(structural,
                                          ErrorMessage(config_data, lookup.schema))]
        semantic_errors == validate_semantics(config_data, client_type)
    IN IF ~parsed.ok
       THEN Returned([result EXCEPT !.errors = <<InvalidJSON>>],
                     FALSE, NoLookup, "skipped", "skipped")
       ELSE IF ~lookup.found \/ ~PyTruthy(lookup.schema)
       THEN Returned([result EXCEPT !.errors = <<NoSchemaFound(client_type)>>],
                     TRUE, lookup, "skipped", "skipped")
       ELSE IF ~semantic_errors.ok
       THEN Raised(semantic_errors.exc, TRUE, lookup, structural)
       ELSE Returned([afterStructural EXCEPT
                          !.errors = afterStructural.errors \o semantic_errors.val],
                     TRUE, lookup, structural, "ran")

(***************************************************************************)
(* Bounds and the inputs of the model.                                     *)
(***************************************************************************)
MaxInbounds == 2
MaxRefs == 2

BoundedSeq(S, n) == UNION {[1..k -> S] : k \in 0..n}

Obj1(k, v) == JObj(<< <<k, v>> >>)

\* Port values around the two ends of the valid range.
PortVals == {0, 1, 65535, 65536}

\* Inbound entries: without the port field, or with it set to a port value.
Inbounds(field) == {JObj(<<>>)} \cup {Obj1(field, JNum(v)) : v \in PortVals}

OutboundChoices == {<<>>,
                    << <<"outbounds", JList(<<>>)>> >>,
                    << <<"outbounds", JList(<<Obj1("tag", JStr("x"))>>)>> >>}

\* sing-box (listen_port) and xray (port) documents: each choice of
\* outbounds alone, and inbounds with no outbounds or with one
PortDocs(field) ==
    {JObj(o) : o \in OutboundChoices}
    \cup {JObj(o \o << <<"inbounds", JList(inb)>> >>) :
            o \in {c \in OutboundChoices : c = <<>> \/ c[1][2].items # <<>>},
            inb \in BoundedSeq(Inbounds(field), MaxInbounds)}

Proxy(n) == JObj(<< <<"name", JStr(n)>>, <<"type", JStr("vmess")>> >>)

ProxyChoices == {<<>>,
                 << <<"proxies", JList(<<>>)>> >>,
                 << <<"proxies", JList(<<Proxy("n1")>>)>> >>,
                 << <<"proxies", JList(<<Proxy("n1"), Proxy("n2")>>)>> >>}

MemberNames == {"n1", "n2", "N1"}
GroupNames == <<"g1", "g2">>

RECURSIVE SumLen(_, _)
SumLen(lists, i) == IF i > Len(lists) THEN 0 ELSE Len(lists[i]) + SumLen(lists, i + 1)

\* The member lists of up to two groups, MaxRefs references in all.
GroupMembers ==
    {ms \in BoundedSeq(BoundedSeq(MemberNames, MaxRefs), Len(GroupNames)) :
        SumLen(ms, 1) <= MaxRefs}

Group(name, members) ==
    JObj(<< <<"name", JStr(name)>>,
            <<"proxies", JList([j \in 1..Len(members) |-> JStr(members[j])])>> >>)

\* clash and mihomo documents
GroupDocs ==
    {JObj(p) : p \in ProxyChoices}
    \cup {JObj(p \o << <<"proxy-groups",
                        JList([g \in 1..Len(ms) |-> Group(GroupNames[g], ms[g])])>> >>) :
            p \in ProxyChoices, ms \in GroupMembers}

\* Documents of other shapes: a top level that is no object, entries that
\* are no objects, a port that is no number, proxies and groups without name.
OddDocs ==
    {JNull, JNum(5), JStr("n1"), JList(<<>>), JList(<<JStr("inbounds")>>),
     JList(<<JStr("proxy-groups")>>),
     Obj1("inbounds", JNull),
     Obj1("inbounds", JList(<<JNum(7)>>)),
     Obj1("inbounds", JList(<<Obj1("listen_port", JStr("80"))>>)),
     Obj1("inbounds", JList(<<Obj1("port", JStr("80"))>>)),
     Obj1("inbounds", JList(<<Obj1("listen_port", JBool(TRUE))>>)),
     JObj(<< <<"proxies", JList(<<Obj1("type", JStr("vmess"))>>)>>,
             <<"proxy-groups", JList(<<>>)>> >>),
     JObj(<< <<"proxies", JList(<<Proxy("n1")>>)>>,
             <<"proxy-groups", JList(<<Obj1("proxies", JList(<<JStr("n2")>>))>>)>> >>),
     JObj(<< <<"proxies", JList(<<Proxy("n1")>>)>>,
             <<"proxy-groups", JList(<<Obj1("name", JStr("g1"))>>)>> >>),
     JObj(<< <<"outbounds", JList(<<Obj1("tag", JStr("x"))>>)>>,
             <<"inbounds", JList(<<Obj1("listen_port", JNum(70000)),
                                   Obj1("port", JNum(0))>>)>>,
             <<"proxies", JList(<<Proxy("n1")>>)>>,
             <<"proxy-groups", JList(<<Group("g1", <<"n1", "n2">>)>>)>> >>)}

\* Documents written out as text, cut short, or followed by more text.
TextSources ==
    {JNull, JNum(5), JObj(<<>>),
     JObj(<< <<"outbounds", JList(<<Obj1("tag", JStr("x"))>>)>>,
             <<"inbounds", JList(<<Obj1("listen_port", JNum(70000))>>)>> >>),
     JObj(<< <<"proxies", JList(<<>>)>>, <<"proxy-groups", JList(<<>>)>> >>)}

\* Texts that are JSON: a document written out, and one with a repeated key.
ValidTexts ==
    {Dump(d) : d \in TextSources}
    \cup {<<P("{"), TStr("outbounds"), P(":"), TNum(1), P(","),
            TStr("outbounds"), P(":"), P("["), P("]"), P("}")>>}

\* Texts that are not JSON: a document cut short or followed by more text,
\* and words that are no JSON literal.
InvalidTexts ==
    UNION {{SubSeq(Dump(d), 1, n) : n \in 0..(Len(Dump(d)) - 1)} : d \in TextSources}
    \cup {Dump(d) \o <<P("}")>> : d \in TextSources}
    \cup {<<TWord("invalid"), TWord("json")>>}

Texts == ValidTexts \cup InvalidTexts

\* The calls of the model: each family of documents with its client types,
\* the odd documents and the texts with every client type.
Calls ==
    {<<DataInput(d), "sing-box">> : d \in PortDocs("listen_port")}
    \cup {<<DataInput(d), "xray">> : d \in PortDocs("port")}
    \cup {<<DataInput(d), c>> : d \in GroupDocs, c \in {"clash", "mihomo"}}
    \cup {<<DataInput(d), c>> : d \in OddDocs, c \in ClientTypes}
    \cup {<<TextInput(t), c>> : t \in Texts, c \in ClientTypes}

URI(c) == schema_mapping(c).val

\* Schema files: unreadable, not JSON, the empty schema, schemas declaring a
\* canonical $id, schemas without $id, a schema that is no valid schema, and
\* one with an unresolvable reference.  The file of the unknown client is
\* absent, a JSON list, or a schema with or without a canonical $id.
Canon(c) == JObj(<< <<"$id", JStr(URI(c))>>, <<"type", JStr("object")>> >>)
Strict == JObj(<< <<"$id", JStr(URI("sing-box"))>>,
                  <<"required", JList(<<JStr("outbounds")>>)>> >>)
Overstrict == JObj(<< <<"type", JStr("array")>>,
                      <<"required", JList(<<JStr("outbounds")>>)>> >>)
NoId == Obj1("type", JStr("object"))
Defect == Obj1("type", JNum(5))
BadRef == Obj1("$ref", JStr("#/$defs/missing"))
BadJson == Text(<<P("{"), TStr("type")>>)

Contents ==
    [sing_box |-> {Absent, Unreadable, BadJson, Text(Dump(JObj(<<>>))), Text(Dump(NoId)),
                   Text(Dump(Strict)), Text(Dump(Overstrict)), Text(Dump(Defect)),
                   Text(Dump(BadRef))},
     unknown_client |-> {Absent, Text(Dump(JList(<<>>))),
                         Text(Dump(NoId))}
                        \cup {Text(Dump(Canon(c))) : c \in SupportedClients}]

Directories ==
    {d \in [FileNames -> Contents.sing_box \cup Contents.unknown_client] :
        /\ d["sing_box.schema.json"] \in Contents.sing_box
        /\ d["unknown_client.schema.json"] \in Contents.unknown_client}

Present(dir) == {n \in DOMAIN dir : dir[n].kind # "absent"}

\* The orders in which glob may yield the files of a directory.
Orders(S) == {o \in [1..Cardinality(S) -> S] : \A i, j \in DOMAIN o : o[i] = o[j] => i = j}

(***************************************************************************)
(* The state machine: a schema directory, one validator, one caller.       *)
(***************************************************************************)
VARIABLES
    dirExists,   \* whether the directory schemas_dir names exists
    files,       \* the content of each file of that directory
    pc,          \* "new" before ConfigValidator(), "ready", "done" after a call
    order,       \* the order glob yielded the files in, for the load
    schemas,     \* self.schemas
    schemas_dir, \* self.schemas_dir
    call,        \* <<input, client_type>> of the last validate_config call
    document,    \* the caller's config_data object, as it is after the call
    trace,       \* what that call did and returned
    heap,        \* the errors lists of the results that are alive, by address
    ref,         \* the address of the errors list of the last result
    kept,        \* the earlier results the caller still holds
    gpc,         \* where the caller of the export framework is
    args,        \* the arguments of the generate_config call under way
    gen_data,    \* generate_config's local config_data
    gen_config,  \* generate_config's local config, the document it returns
    raised,      \* the exception generate_config raised, if any
    now,         \* the clock datetime.now reads
    sums,        \* two documents and the checksums computed for them
    cli          \* what the generate command was given, when it made the call

vars == <<dirExists, files, pc, order, schemas, schemas_dir, call, document, trace,
          heap, ref, kept, gpc, args, gen_data, gen_config, raised, now, sums, cli>>

validatorVars == <<dirExists, files, pc, order, schemas, schemas_dir, call, document,
                   trace, heap, ref, kept>>

exportVars == <<gpc, args, gen_data, gen_config, raised, now, sums, cli>>

NoCall == <<>>
NoRef == 0

Init ==
    /\ dirExists \in BOOLEAN
    /\ files \in Directories
    /\ ~dirExists => \A n \in FileNames : files[n] = Absent
    /\ pc = "new"
    /\ order = <<>>
    /\ schemas = <<>>
    /\ schemas_dir = "unset"
    /\ call = NoCall
    /\ document = NoCall
    /\ trace = NoCall
    /\ heap = <<>>
    /\ ref = NoRef
    /\ kept = <<>>
    /\ gpc = "idle"
    /\ args = NoCall
    /\ gen_data = NoCall
    /\ gen_config = NoCall
    /\ raised = NoCall
    /\ now = 0
    /\ sums = NoCall
    /\ cli = NoCall

\* ConfigValidator(schemas_dir): __init__ and _load_schemas
Construct ==
    /\ pc = "new"
    /\ schemas_dir' = "schemas"
    /\ \E o \in Orders(Present(files)) :
          /\ order' = o
          /\ schemas' = load_schemas(dirExists, files, o)
    /\ pc' = "ready"
    /\ UNCHANGED <<dirExists, files, call, document, trace, heap, ref, kept>>
    /\ UNCHANGED exportVars

\* one errors list made once and used by every result
SharedList(h) == 1

\* "errors": [] in the result literal: a list at an address no live list has
NewList(h) == Len(h) + 1

\* The errors list of the result, at address r, after the call appended to it.
Appended(h, r, entries) ==
    IF r \in DOMAIN h THEN [h EXCEPT ![r] = @ \o entries] ELSE Append(h, entries)

\* validate_config that loads the schema files again before it validates
ValidateCallRefreshing(c) ==
    \E o \in Orders(Present(files)) :
        LET idx == load_schemas(dirExists, files, o)
            t == validate_config(idx, dirExists, files, c[1], c[2])
            r == NewList(heap)
        IN /\ pc = "ready"
           /\ call' = c
           /\ document' = c[1]
           /\ trace' = t
           /\ order' = o
           /\ schemas' = idx
           /\ IF t.outcome = "returned"
              THEN ref' = r /\ heap' = Appended(heap, r, t.result.errors)
              ELSE ref' = NoRef /\ heap' = heap
           /\ pc' = "done"
           /\ UNCHANGED <<dirExists, files, schemas_dir, kept>>
           /\ UNCHANGED exportVars

\* validator.validate_config(config_data, client_type) with the call c.  A
\* call that raises hands no result to the caller.
ValidateCall(c) ==
    LET t == validate_config(schemas, dirExists, files, c[1], c[2])
        r == NewList(heap)
    IN /\ pc = "ready"
       /\ call' = c
       /\ document' = c[1]
       /\ trace' = t
       /\ IF t.outcome = "returned"
          THEN ref' = r /\ heap' = Appended(heap, r, t.result.errors)
          ELSE ref' = NoRef /\ heap' = heap
       /\ pc' = "done"
       /\ UNCHANGED <<dirExists, files, order, schemas, schemas_dir, kept>>
       /\ UNCHANGED exportVars

Validate == \E c \in Calls : ValidateCall(c)

\* The caller drops the result (or handles the exception) and goes on.
Discard ==
    /\ pc = "done"
    /\ pc' = "ready"
    /\ call' = NoCall
    /\ document' = NoCall
    /\ trace' = NoCall
    /\ ref' = NoRef
    /\ heap' = IF ref = Len(heap) /\ (\A i \in 1..Len(kept) : kept[i].ref # ref)
               THEN SubSeq(heap, 1, Len(heap) - 1) ELSE heap
    /\ UNCHANGED <<dirExists, files, order, schemas, schemas_dir, kept>>
    /\ UNCHANGED exportVars

Next == Construct \/ Validate \/ Discard

Spec == Init /\ [][Next]_vars

(***************************************************************************)
(* The validator in use over time: the caller keeps results of earlier     *)
(* calls, and schema files are written and removed between calls.          *)
(***************************************************************************)
MaxKept == 2

LiveContents ==
    [sing_box |-> {Absent, Text(Dump(NoId)), Text(Dump(Strict))},
     unknown_client |-> {Absent, Text(Dump(NoId))}]

LiveDirectories ==
    {d \in Directories :
        /\ d["sing_box.schema.json"] \in LiveContents.sing_box
        /\ d["unknown_client.schema.json"] \in LiveContents.unknown_client}

LiveCalls ==
    {<<DataInput(JObj(<<>>)), "sing-box">>,
     <<DataInput(JObj(<<>>)), "unknown-client">>,
     <<TextInput(<<P("{")>>), "sing-box">>}

\* What schema resolution gave: the schema, or nothing.
Resolution(lookup) ==
    IF lookup.found /\ PyTruthy(lookup.schema) THEN lookup.schema ELSE JNull

InitLive == Init /\ files \in LiveDirectories

ValidateLive == \E c \in LiveCalls : ValidateCall(c)

\* The caller keeps the result and goes on.
Keep ==
    /\ pc = "done"
    /\ trace.outcome = "returned"
    /\ Len(kept) < MaxKept
    /\ kept' = Append(kept, [client_type |-> call[2], parsed |-> trace.parsed,
                             lookup |-> trace.lookup, ref |-> ref,
                             result |-> trace.result])
    /\ pc' = "ready"
    /\ call' = NoCall
    /\ document' = NoCall
    /\ trace' = NoCall
    /\ ref' = NoRef
    /\ UNCHANGED <<dirExists, files, order, schemas, schemas_dir, heap>>
    /\ UNCHANGED exportVars

\* The caller lets go of every result it kept.
Release ==
    /\ pc = "ready"
    /\ kept # <<>>
    /\ kept' = <<>>
    /\ heap' = <<>>
    /\ UNCHANGED <<dirExists, files, pc, order, schemas, schemas_dir, call, document,
                   trace, ref>>
    /\ UNCHANGED exportVars

\* A schema file is added to the directory, or its content replaced.
WriteFile ==
    /\ pc = "ready"
    /\ dirExists
    /\ \E n \in FileNames, content \in LiveContents.sing_box \cup LiveContents.unknown_client :
          /\ content # Absent
          /\ content # files[n]
          /\ [files EXCEPT ![n] = content] \in LiveDirectories
          /\ files' = [files EXCEPT ![n] = content]
    /\ UNCHANGED <<dirExists, pc, order, schemas, schemas_dir, call, document, trace,
                   heap, ref, kept>>
    /\ UNCHANGED exportVars

\* A schema file is removed from the directory.
RemoveFile ==
    /\ pc = "ready"
    /\ dirExists
    /\ \E n \in FileNames :
          /\ files[n] # Absent
          /\ files' = [files EXCEPT ![n] = Absent]
    /\ UNCHANGED <<dirExists, pc, order, schemas, schemas_dir, call, document, trace,
                   heap, ref, kept>>
    /\ UNCHANGED exportVars

NextLive ==
    Construct \/ ValidateLive \/ Discard \/ Keep \/ Release \/ WriteFile \/ RemoveFile

SpecLive == InitLive /\ [][NextLive]_vars

(***************************************************************************)
(* Properties of validate_config.                                          *)
(***************************************************************************)
Done == pc = "done"
ReturnedCall == Done /\ trace.outcome = "returned"
Input == call[1]
Client == call[2]

\* The document the call saw: the parsed text, or the data passed in.
Parsed == IF Input.kind = "text" THEN json_loads(Input.toks) ELSE Ok(Input.data)
Doc == Parsed.val

\* A schema was resolved: the lookup gave a value that is not falsy.
Resolved == trace.lookup.found /\ PyTruthy(trace.lookup.schema)

Errors == trace.result.errors
InErrors(e) == \E i \in 1..Len(Errors) : Errors[i] = e

\* C1: in every returned result, valid is true if and only if the errors
\* list is empty, the input parsed and a schema was resolved.
C1_ValidIffNoErrors ==
    ReturnedCall =>
        (trace.result.valid <=> (Errors = <<>> /\ trace.parsed /\ Resolved))

\* C2: validate_config never raises: every call returns a result.
C2_NeverRaises == Done => trace.outcome = "returned"

\* C3: when the input parsed and a schema was resolved, the semantic rules
\* run whatever the structural outcome was: the returned errors are the
\* structural entry (if any) followed by every semantic violation, and a
\* call ends otherwise only where the rules themselves raised.
C3_SemanticAlwaysRun ==
    (Done /\ trace.parsed /\ Resolved) =>
        /\ trace.structural \in {"ok", "ValidationError", "SchemaError", "Exception"}
        /\ trace.outcome = "returned" =>
              /\ trace.semantic = "ran"
              /\ validate_semantics(Doc, Client).ok
              /\ Len(Errors) = (IF trace.structural = "ok" THEN 0 ELSE 1)
                                + Len(validate_semantics(Doc, Client).val)
              /\ \A i \in 1..Len(validate_semantics(Doc, Client).val) :
                    InErrors(validate_semantics(Doc, Client).val[i])
              /\ trace.structural = "ValidationError" =>
                    Errors[1].msg = "Validation error"
              /\ trace.structural = "SchemaError" => Errors[1].msg = "Schema error"
              /\ trace.structural = "Exception" => Errors[1].msg = "Unexpected error"
        /\ trace.outcome = "raised" => ~validate_semantics(Doc, Client).ok

\* A structural error and a semantic violation reported by one call.
C3_Witness ==
    /\ ReturnedCall /\ trace.parsed /\ Resolved
    /\ trace.structural = "ValidationError"
    /\ Len(Errors) = 3
    /\ Errors[1].msg = "Validation error"
    /\ Errors[2] = MissingList("sing-box", "outbound")
    /\ Errors[3].msg = "Invalid port"

\* C4: text that is not JSON gives valid = false and exactly one error, the
\* parse error; no schema file is read and no later step adds an entry.
C4_InvalidJson ==
    (Done /\ Input.kind = "text" /\ Input.toks \in InvalidTexts) =>
        /\ trace.outcome = "returned"
        /\ trace.result.valid = FALSE
        /\ Errors = <<InvalidJSON>>
        /\ trace.lookup.reads = <<>>
        /\ trace.structural = "skipped"
        /\ trace.semantic = "skipped"

\* A document with trailing text was rejected while a schema was there.
C4_Witness ==
    /\ Done /\ Input.kind = "text"
    /\ Input.toks = Dump(JObj(<<>>)) \o <<P("}")>>
    /\ Client = "sing-box"
    /\ FileExists(dirExists, files, "sing_box.schema.json")
    /\ Errors = <<InvalidJSON>>

\* The fallback file of a client type holds JSON that is not falsy.
FallbackUsable(client_type) ==
    /\ FileExists(dirExists, files, FallbackFileName(client_type))
    /\ files[FallbackFileName(client_type)].kind = "text"
    /\ files[FallbackFileName(client_type)].toks \in
          {Dump(v) : v \in {NoId, Strict, Defect, BadRef} \cup {Canon(c) : c \in SupportedClients}}

\* C5 as stated: for a client type outside the supported set, whatever the
\* document (data, or text that is JSON) and the schema directory, the result
\* has valid = false and its first error is the "No schema found" error.
C5_UnknownAlwaysFails ==
    (Done /\ Client \notin SupportedClients /\ Parsed.ok) =>
        /\ trace.outcome = "returned"
        /\ trace.result.valid = FALSE
        /\ Len(Errors) >= 1
        /\ Errors[1] = NoSchemaFound(Client)

\* C5 amended: for a client type outside the supported set and an input that
\* parsed, the result is valid = false with the single error "No schema
\* found", unless the directory holds a usable fallback file for that name.
C5_UnknownFailsWithoutFallbackFile ==
    (Done /\ Client \notin SupportedClients /\ Parsed.ok /\ ~FallbackUsable(Client)) =>
        /\ trace.outcome = "returned"
        /\ trace.result.valid = FALSE
        /\ Errors = <<NoSchemaFound(Client)>>

\* An unknown client type fails although the canonical sing-box schema is indexed.
C5_Witness ==
    /\ ReturnedCall /\ Client = "unknown-client" /\ Input.kind = "data"
    /\ IndexHas(schemas, JStr(URI("sing-box")))
    /\ ~FallbackUsable(Client)
    /\ Errors = <<NoSchemaFound(Client)>>

\* C6: resolution is two-tier and ordered.  If the canonical identifier of the
\* client type is a key of the index, the indexed schema is the result and no
\* file is read; only otherwise the fallback file is read, and a file that is
\* absent, unreadable or not JSON gives "not found".
C6_TwoTierResolution ==
    (Done /\ trace.parsed) =>
        LET canon == schema_mapping(Client)
            name == FallbackFileName(Client)
        IN IF canon.ok /\ IndexHas(schemas, JStr(canon.val))
           THEN /\ trace.lookup.found
                /\ trace.lookup.schema = IndexGet(schemas, JStr(canon.val))
                /\ trace.lookup.reads = <<>>
           ELSE IF ~FileExists(dirExists, files, name)
           THEN ~trace.lookup.found /\ trace.lookup.reads = <<>>
           ELSE /\ trace.lookup.reads = <<name>>
                /\ IF files[name].kind = "text" /\ json_loads(files[name].toks).ok
                   THEN /\ trace.lookup.found
                        /\ trace.lookup.schema = json_loads(files[name].toks).val
                   ELSE ~trace.lookup.found

\* The index answers for sing-box while a different fallback file is there.
C6_Witness ==
    /\ Done /\ trace.parsed /\ Client = "sing-box"
    /\ files["sing_box.schema.json"] = Text(Dump(NoId))
    /\ trace.lookup.found
    /\ trace.lookup.schema = Canon("sing-box")
    /\ trace.lookup.reads = <<>>

BadFile(content) ==
    content \in {Unreadable, BadJson, Text(Dump(JList(<<>>)))}

\* The key under which the load stores a schema file.
ExpectedKey(name, schema) ==
    IF HasKey(schema, "$id") THEN Lookup(schema, "$id") ELSE JStr(Stem(name))

WithoutBadFiles(o) == SelectSeq(o, LAMBDA n : ~BadFile(files[n]))

\* C8: the load never aborts on a bad file.  The index after the load is the
\* one the load gives with the bad files absent, and it has an entry for
\* every file that holds a schema object.
C8_BadFilesSkipped ==
    (pc # "new" /\ dirExists) =>
        /\ schemas = LoadLoop(<<>>, files, WithoutBadFiles(order), 1)
        /\ \A n \in Present(files) :
              ~BadFile(files[n]) =>
                  IndexHas(schemas, ExpectedKey(n, json_loads(files[n].toks).val))

\* A bad file was visited first and the schema after it was still loaded.
C8_Witness ==
    /\ pc = "ready"
    /\ order = <<"sing_box.schema.json", "unknown_client.schema.json">>
    /\ files["sing_box.schema.json"] = BadJson
    /\ schemas = << <<JStr("unknown_client.schema"), NoId>> >>

PortField(client_type) == IF client_type = "sing-box" THEN "listen_port" ELSE "port"

\* The inbound entries of the document, if it has a list of them.
InboundList ==
    IF Doc.t = "obj" /\ HasKey(Doc, "inbounds") /\ Lookup(Doc, "inbounds").t = "list"
    THEN Lookup(Doc, "inbounds").items ELSE <<>>

HasIntPort(inbound, field) ==
    inbound.t = "obj" /\ HasKey(inbound, field) /\ Lookup(inbound, field).t = "num"

OutOfRange(v) == v < 1 \/ v > 65535

\* C9: for sing-box (listen_port) and xray (port), the errors hold "Invalid
\* port v in inbound i" exactly for the inbounds whose port v is below 1 or
\* above 65535, none for an inbound without the field, and a document with
\* an out-of-range port is returned with valid = false.
C9_PortRule ==
    (ReturnedCall /\ trace.parsed /\ Resolved /\ Client \in {"sing-box", "xray"}) =>
        \A i \in 1..Len(InboundList) :
            LET inbound == InboundList[i]
                field == PortField(Client)
            IN /\ HasIntPort(inbound, field) =>
                    /\ InErrors(InvalidPort(Lookup(inbound, field), i - 1))
                          <=> OutOfRange(Lookup(inbound, field).n)
                    /\ OutOfRange(Lookup(inbound, field).n) => trace.result.valid = FALSE
               /\ (inbound.t = "obj" /\ ~HasKey(inbound, field)) =>
                    ~\E k \in 1..Len(Errors) :
                        Errors[k].msg = "Invalid port" /\ Errors[k].inbound = i - 1

\* The part of C9 about the errors list alone, which the code satisfies.
C9_PortErrorsOnly ==
    (ReturnedCall /\ trace.parsed /\ Resolved /\ Client \in {"sing-box", "xray"}) =>
        \A i \in 1..Len(InboundList) :
            LET inbound == InboundList[i]
                field == PortField(Client)
            IN /\ HasIntPort(inbound, field) =>
                    (InErrors(InvalidPort(Lookup(inbound, field), i - 1))
                        <=> OutOfRange(Lookup(inbound, field).n))
               /\ (inbound.t = "obj" /\ ~HasKey(inbound, field)) =>
                    ~\E k \in 1..Len(Errors) :
                        Errors[k].msg = "Invalid port" /\ Errors[k].inbound = i - 1

\* The groups of the document and the names its proxies define, for
\* documents whose proxies and groups all have string names.
GroupList ==
    IF Doc.t = "obj" /\ HasKey(Doc, "proxy-groups") /\ Lookup(Doc, "proxy-groups").t = "list"
    THEN Lookup(Doc, "proxy-groups").items ELSE <<>>

DefinedNames ==
    IF Doc.t = "obj" /\ HasKey(Doc, "proxies") /\ Lookup(Doc, "proxies").t = "list"
    THEN {Lookup(Lookup(Doc, "proxies").items[i], "name") :
             i \in 1..Len(Lookup(Doc, "proxies").items)}
    ELSE {}

MemberList(group) ==
    IF HasKey(group, "proxies") THEN Lookup(group, "proxies").items ELSE <<>>

\* C10: for clash and mihomo, the errors hold an entry naming group G and
\* member m exactly when m is not the name of any proxy; a document with an
\* undefined reference is returned with valid = false.
C10_GroupRule ==
    (ReturnedCall /\ trace.parsed /\ Resolved /\ Client \in {"clash", "mihomo"}) =>
        \A g \in 1..Len(GroupList) :
            \A j \in 1..Len(MemberList(GroupList[g])) :
                LET m == MemberList(GroupList[g])[j]
                    G == Lookup(GroupList[g], "name")
                IN /\ InErrors(UndefinedProxy(G, m)) <=> m \notin DefinedNames
                   /\ m \notin DefinedNames => trace.result.valid = FALSE

\* The part of C10 about the errors list alone, which the code satisfies.
C10_GroupErrorsOnly ==
    (ReturnedCall /\ trace.parsed /\ Resolved /\ Client \in {"clash", "mihomo"}) =>
        /\ \A g \in 1..Len(GroupList) :
              \A j \in 1..Len(MemberList(GroupList[g])) :
                  LET m == MemberList(GroupList[g])[j]
                      G == Lookup(GroupList[g], "name")
                  IN InErrors(UndefinedProxy(G, m)) <=> m \notin DefinedNames
        /\ (\A g \in 1..Len(GroupList) :
              \A j \in 1..Len(MemberList(GroupList[g])) :
                  MemberList(GroupList[g])[j] \in DefinedNames) =>
              ~\E k \in 1..Len(Errors) : Errors[k].msg = "references undefined proxy"

(***************************************************************************)
(* The missing-list rule.                                                  *)
(***************************************************************************)
RequiredList(client_type) ==
    IF client_type \in {"sing-box", "xray"} THEN "outbounds" ELSE "proxies"

ListNoun(client_type) ==
    IF client_type \in {"sing-box", "xray"} THEN "outbound" ELSE "proxy"

\* The document is an object whose required list is absent or empty.
ListMissing ==
    /\ Doc.t = "obj"
    /\ \/ ~HasKey(Doc, RequiredList(Client))
       \/ Lookup(Doc, RequiredList(Client)) = JList(<<>>)

\* The entries of the errors list that the semantic rules appended.
SemanticEntries ==
    SelectSeq(Errors, LAMBDA e : e.msg \in {"configuration must have at least one",
                                            "Invalid port",
                                            "references undefined proxy"})

MissingEntries ==
    SelectSeq(Errors, LAMBDA e : e.msg = "configuration must have at least one")

EmptyProxiesAndGroups ==
    /\ Doc.t = "obj"
    /\ HasKey(Doc, "proxies") /\ Lookup(Doc, "proxies") = JList(<<>>)
    /\ HasKey(Doc, "proxy-groups") /\ Lookup(Doc, "proxy-groups") = JList(<<>>)

\* C11: for a supported client type with a resolved schema, a document whose
\* required list is absent or empty is returned with valid = false and with
\* exactly one missing-list error; for clash with empty proxies and empty
\* proxy-groups that error is the only semantic error.
C11_MissingList ==
    (ReturnedCall /\ trace.parsed /\ Resolved /\ Client \in SupportedClients
       /\ ListMissing) =>
        /\ trace.result.valid = FALSE
        /\ MissingEntries = <<MissingList(Client, ListNoun(Client))>>
        /\ (Client = "clash" /\ EmptyProxiesAndGroups) =>
              SemanticEntries = <<MissingList("clash", "proxy")>>

\* The part of C11 about the errors list alone, which the code satisfies.
C11_MissingListErrorsOnly ==
    (ReturnedCall /\ trace.parsed /\ Resolved /\ Client \in SupportedClients
       /\ ListMissing) =>
        /\ MissingEntries = <<MissingList(Client, ListNoun(Client))>>
        /\ (Client = "clash" /\ EmptyProxiesAndGroups) =>
              SemanticEntries = <<MissingList("clash", "proxy")>>

C11_ErrorsOnlyReached ==
    /\ ReturnedCall /\ trace.parsed /\ Resolved
    /\ Client = "clash" /\ EmptyProxiesAndGroups
    /\ Errors = <<MissingList("clash", "proxy")>>

(***************************************************************************)
(* Frame and freshness of validate_config.                                 *)
(***************************************************************************)
\* C12: a validate_config call changes neither self.schemas nor
\* self.schemas_dir nor the caller's document, and the errors list of its
\* result is a new list: it is at the address of no result the caller still
\* holds, and every such earlier result keeps the errors it was returned with.
C12_CallFrame ==
    [][(pc = "ready" /\ pc' = "done") =>
          /\ schemas' = schemas
          /\ schemas_dir' = schemas_dir
          /\ document' = call'[1]
          /\ \A i \in 1..Len(kept') :
                /\ kept'[i].ref # ref'
                /\ heap'[kept'[i].ref] = kept'[i].result.errors
          /\ \A i, j \in 1..Len(kept') : kept'[i].ref = kept'[j].ref => i = j
          /\ trace'.outcome = "returned" => heap'[ref'] = trace'.result.errors]_vars

\* A call returned a result with errors while the caller holds two earlier
\* results, one of them with errors.
C12_Witness ==
    /\ Done /\ trace.outcome = "returned"
    /\ Len(kept) = 2
    /\ kept[1].result.errors # <<>>
    /\ Errors # <<>>
    /\ schemas # <<>>

(***************************************************************************)
(* Schema resolution over time.                                            *)
(***************************************************************************)
\* C13 as stated: for one validator and one client type, schema resolution
\* gives the same outcome (the same schema, or none) in every call, whatever
\* was written to or removed from the schema directory after construction.
C13_StableResolution ==
    (Done /\ trace.parsed) =>
        \A i \in 1..Len(kept) :
            (kept[i].parsed /\ kept[i].client_type = Client) =>
                Resolution(kept[i].lookup) = Resolution(trace.lookup)

\* C13, amended: a client type that an earlier call resolved from the index
\* is resolved from the index, to the same schema and without reading any
\* file, in every later call, whatever was written to or removed from the
\* schema directory in between.
C13_IndexHitsStable ==
    (Done /\ trace.parsed) =>
        \A i \in 1..Len(kept) :
            (kept[i].parsed /\ kept[i].client_type = Client
               /\ kept[i].lookup.found /\ kept[i].lookup.reads = <<>>) =>
                kept[i].lookup = trace.lookup

\* A type resolved from the index in an earlier call is resolved again after
\* the file that declared its schema was removed.
C13_Witness ==
    /\ Done /\ trace.parsed /\ Len(kept) = 1
    /\ kept[1].parsed /\ kept[1].client_type = Client
    /\ kept[1].lookup.found /\ kept[1].lookup.reads = <<>>
    /\ files["sing_box.schema.json"] = Absent
    /\ trace.lookup.found

\* self.schemas is built by the constructor and never changes afterwards.
C13_IndexBuiltOnce ==
    [][pc # "new" => schemas' = schemas]_vars

(***************************************************************************)
(* The constant fields of the result.                                      *)
(***************************************************************************)
\* C14: every result validate_config returns, on every path, has an empty
\* warnings list and a client_type equal to the client_type argument.
C14_WarningsEmptyClientEchoed ==
    ReturnedCall =>
        /\ trace.result.warnings = <<>>
        /\ trace.result.client_type = Client

\* A result of the structural-failure path for a client type outside the
\* supported set.
C14_Witness ==
    /\ ReturnedCall
    /\ Client = "unknown-client"
    /\ trace.structural = "ValidationError"
    /\ trace.result.client_type = "unknown-client"
    /\ trace.result.warnings = <<>>

C14_ParseFailureReached == ReturnedCall /\ ~trace.parsed /\ Client = "mihomo"
C14_NoSchemaReached == ReturnedCall /\ trace.parsed /\ ~Resolved /\ Client = "xray"
C14_SuccessReached ==
    ReturnedCall /\ trace.result.valid /\ Errors = <<>> /\ Client = "clash"

(***************************************************************************)
(* The export framework: _calculate_checksum.                              *)
(***************************************************************************)
\* The keys of the documents of the model, in the order Python compares str.
KeyOrder ==
    <<"B", "a", "address", "alterId", "auth", "b", "checksum", "cipher", "client",
      "config", "created_at", "dns", "domainStrategy", "excluded_servers",
      "external-controller", "filtered_servers", "generator", "id", "inbounds", "log",
      "log-level", "loglevel", "metadata", "method", "mode", "name", "network",
      "outbounds", "password", "port", "protocol", "proxies", "proxy-groups", "route",
      "routing", "rules", "security", "server", "server_port", "servers", "settings",
      "socks-port", "source", "streamSettings", "subscription_info", "tag", "tls",
      "total_servers", "type", "udp", "users", "uuid", "version", "vnext", "x", "y">>

\* the place of each key in that order
KeyRank ==
    [k \in {KeyOrder[i] : i \in 1..Len(KeyOrder)} |->
        CHOOSE i \in 1..Len(KeyOrder) : KeyOrder[i] = k]

KeyLess(k1, k2) == KeyRank[k1] < KeyRank[k2]

RECURSIVE InsertItem(_, _)
\* the item put before the first item with a greater key
InsertItem(sorted, item) ==
    IF sorted = <<>> THEN <<item>>
    ELSE IF KeyLess(item[1], sorted[1][1]) THEN <<item>> \o sorted
    ELSE <<sorted[1]>> \o InsertItem(Tail(sorted), item)

RECURSIVE SortedItems(_, _)
\* sorted(dct.items()), from item i on
SortedItems(kv, i) ==
    IF i > Len(kv) THEN <<>> ELSE InsertItem(SortedItems(kv, i + 1), kv[i])

RECURSIVE SortKeys(_)
\* The value as json.dumps(..., sort_keys=True) writes it: the items of
\* every dict, at every depth, in key order.
SortKeys(v) ==
    CASE v.t = "list" -> JList([i \in 1..Len(v.items) |-> SortKeys(v.items[i])])
      [] v.t = "obj" ->
            JObj(SortedItems([i \in 1..Len(v.kv) |-> <<v.kv[i][1], SortKeys(v.kv[i][2])>>], 1))
      [] OTHER -> v

\* json.dumps(config_data, sort_keys=True, separators=(',', ':'))
dumps_sorted(config_data) == Dump(SortKeys(config_data))

\* SHA-256 gives 32 bytes; hexdigest writes each as two of 0-9a-f.
DigestSize == 32

\* hashlib.sha256(data).hexdigest(): the digest of the text, in hexadecimal.
\* Two texts of the model have the same digest only if they are the same.
sha256_hexdigest(text) ==
    [digest_of |-> text, alphabet |-> "0123456789abcdef", length |-> 2 * DigestSize]

\* a checksum of the text as the dict happens to be ordered
calculate_checksum_unsorted(config_data) == sha256_hexdigest(Dump(config_data))

\* _calculate_checksum
calculate_checksum(config_data) == sha256_hexdigest(dumps_sorted(config_data))

RECURSIVE JsonEqual(_, _)
\* Two documents are the same JSON value: dicts with the same keys and equal
\* values under each key, in whatever order; lists equal item by item.
JsonEqual(a, b) ==
    IF a.t # b.t THEN FALSE
    ELSE CASE a.t = "obj" ->
                /\ Len(a.kv) = Len(b.kv)
                /\ \A i \in 1..Len(a.kv) :
                      /\ HasKey(b, a.kv[i][1])
                      /\ JsonEqual(a.kv[i][2], Lookup(b, a.kv[i][1]))
           [] a.t = "list" ->
                /\ Len(a.items) = Len(b.items)
                /\ \A i \in 1..Len(a.items) : JsonEqual(a.items[i], b.items[i])
           [] OTHER -> a = b

\* Documents for the checksum: the same fields in either order, at two
\* depths, with values that differ in type, in value or in list order.
ChecksumLeaves ==
    {JNum(1), JNum(2), JStr("1"), JBool(TRUE), JNull,
     JList(<<JNum(1), JNum(2)>>), JList(<<JNum(2), JNum(1)>>)}

ChecksumInner ==
    {JObj(<<>>), Obj1("a", JNum(1)), Obj1("B", JNum(1)),
     JObj(<< <<"a", JNum(1)>>, <<"B", JNum(2)>> >>),
     JObj(<< <<"B", JNum(2)>>, <<"a", JNum(1)>> >>),
     JObj(<< <<"a", JNum(2)>>, <<"B", JNum(1)>> >>)}

ChecksumDocs ==
    ChecksumInner
    \cup {Obj1("x", v) : v \in ChecksumLeaves \cup ChecksumInner}
    \cup {JObj(<< <<"x", v>>, <<"y", w>> >>) : v \in ChecksumInner, w \in {JNum(1), JNull}}
    \cup {JObj(<< <<"y", w>>, <<"x", v>> >>) : v \in ChecksumInner, w \in {JNum(1), JNull}}

(***************************************************************************)
(* The export framework: the per-client generators.                        *)
(***************************************************************************)
\* getattr(server, name, default)
getattr(server, name, default) ==
    IF name \in DOMAIN server THEN server[name] ELSE default

\* _convert_to_clash_proxy: the proxy dict, or None
convert_to_clash_proxy(server, name) ==
    CASE server.protocol = "vmess" ->
            JObj(<< <<"name", JStr(name)>>, <<"type", JStr("vmess")>>,
                    <<"server", JStr(server.address)>>, <<"port", JNum(server.port)>>,
                    <<"uuid", JStr(server.uuid)>>,
                    <<"alterId", JNum(getattr(server, "alter_id", 0))>>,
                    <<"cipher", JStr("auto")>>,
                    <<"tls", JBool(getattr(server, "tls", FALSE))>>,
                    <<"network", JStr(getattr(server, "network", "tcp"))>> >>)
      [] server.protocol = "ss" ->
            JObj(<< <<"name", JStr(name)>>, <<"type", JStr("ss")>>,
                    <<"server", JStr(server.address)>>, <<"port", JNum(server.port)>>,
                    <<"cipher", JStr(server.security)>>,
                    <<"password", JStr(server.password)>> >>)
      [] server.protocol = "trojan" ->
            JObj(<< <<"name", JStr(name)>>, <<"type", JStr("trojan")>>,
                    <<"server", JStr(server.address)>>, <<"port", JNum(server.port)>>,
                    <<"password", JStr(server.password)>>, <<"tls", JBool(TRUE)>> >>)
      [] OTHER -> JNull

RECURSIVE ClashProxies(_, _)
\* for i, server in enumerate(servers): proxy = convert(server, f"server-{i}");
\* if proxy: proxies.append(proxy).  i counts from 1 here; the name has i - 1.
ClashProxies(servers, i) ==
    IF i > Len(servers) THEN <<>>
    ELSE LET proxy == convert_to_clash_proxy(servers[i], "server-" \o ToString(i - 1)) IN
         (IF PyTruthy(proxy) THEN <<proxy>> ELSE <<>>) \o ClashProxies(servers, i + 1)

\* _generate_clash_config with a group that lists a name for every server,
\* converted or not
generate_clash_config_group_of_all_servers(servers, options) ==
    LET proxies == ClashProxies(servers, 1)
        groups == IF proxies # <<>>
                  THEN <<JObj(<< <<"name", JStr("Proxy")>>, <<"type", JStr("select")>>,
                                 <<"proxies",
                                   JList([i \in 1..Len(servers) |->
                                             JStr("server-" \o ToString(i - 1))])>> >>)>>
                  ELSE <<>>
    IN JObj(<< <<"port", JNum(7890)>>, <<"socks-port", JNum(7891)>>,
               <<"mode", JStr("rule")>>, <<"log-level", JStr("info")>>,
               <<"external-controller", JStr("127.0.0.1:9090")>>,
               <<"proxies", JList(proxies)>>,
               <<"proxy-groups", JList(groups)>>,
               <<"rules", JList(<<JStr("DOMAIN-SUFFIX,google.com,Proxy"),
                                  JStr("GEOIP,CN,DIRECT"), JStr("MATCH,Proxy")>>)>> >>)

\* _generate_clash_config
generate_clash_config(servers, options) ==
    LET proxies == ClashProxies(servers, 1)
        groups == IF proxies # <<>>
                  THEN <<JObj(<< <<"name", JStr("Proxy")>>, <<"type", JStr("select")>>,
                                 <<"proxies",
                                   JList([i \in 1..Len(proxies) |->
                                             Lookup(proxies[i], "name")])>> >>)>>
                  ELSE <<>>
    IN JObj(<< <<"port", JNum(7890)>>, <<"socks-port", JNum(7891)>>,
               <<"mode", JStr("rule")>>, <<"log-level", JStr("info")>>,
               <<"external-controller", JStr("127.0.0.1:9090")>>,
               <<"proxies", JList(proxies)>>,
               <<"proxy-groups", JList(groups)>>,
               <<"rules", JList(<<JStr("DOMAIN-SUFFIX,google.com,Proxy"),
                                  JStr("GEOIP,CN,DIRECT"), JStr("MATCH,Proxy")>>)>> >>)

\* _generate_mihomo_config
generate_mihomo_config(servers, options) == generate_clash_config(servers, options)

\* _convert_to_xray_outbound: the outbound dict, or None
convert_to_xray_outbound(server) ==
    CASE server.protocol = "vmess" ->
            JObj(<< <<"protocol", JStr("vmess")>>,
                    <<"settings", Obj1("vnext", JList(<<
                        JObj(<< <<"address", JStr(server.address)>>,
                                <<"port", JNum(server.port)>>,
                                <<"users", JList(<<
                                    JObj(<< <<"id", JStr(server.uuid)>>,
                                            <<"alterId",
                                              JNum(getattr(server, "alter_id", 0))>> >>)>>)>> >>)>>))>>,
                    <<"streamSettings",
                      JObj(<< <<"network", JStr(getattr(server, "network", "tcp"))>>,
                              <<"security", JStr(IF getattr(server, "tls", FALSE)
                                                 THEN "tls" ELSE "none")>> >>)>> >>)
      [] server.protocol = "ss" ->
            JObj(<< <<"protocol", JStr("shadowsocks")>>,
                    <<"settings", Obj1("servers", JList(<<
                        JObj(<< <<"address", JStr(server.address)>>,
                                <<"port", JNum(server.port)>>,
                                <<"method", JStr(server.security)>>,
                                <<"password", JStr(server.password)>> >>)>>))>> >>)
      [] server.protocol = "trojan" ->
            JObj(<< <<"protocol", JStr("trojan")>>,
                    <<"settings", Obj1("servers", JList(<<
                        JObj(<< <<"address", JStr(server.address)>>,
                                <<"port", JNum(server.port)>>,
                                <<"password", JStr(server.password)>> >>)>>))>>,
                    <<"streamSettings", Obj1("security", JStr("tls"))>> >>)
      [] OTHER -> JNull

RECURSIVE XrayOutbounds(_, _)
\* for server in servers: outbound = convert(server); if outbound: append
XrayOutbounds(servers, i) ==
    IF i > Len(servers) THEN <<>>
    ELSE LET outbound == convert_to_xray_outbound(servers[i]) IN
         (IF PyTruthy(outbound) THEN <<outbound>> ELSE <<>>) \o XrayOutbounds(servers, i + 1)

\* _generate_xray_config
generate_xray_config(servers, options) ==
    JObj(<< <<"log", Obj1("loglevel", JStr("warning"))>>,
            <<"inbounds", JList(<<
                JObj(<< <<"port", JNum(1080)>>, <<"protocol", JStr("socks")>>,
                        <<"settings", JObj(<< <<"auth", JStr("noauth")>>,
                                              <<"udp", JBool(TRUE)>> >>)>> >>)>>)>>,
            <<"outbounds", JList(XrayOutbounds(servers, 1)
                                 \o <<JObj(<< <<"protocol", JStr("freedom")>>,
                                              <<"tag", JStr("direct")>> >>),
                                      JObj(<< <<"protocol", JStr("blackhole")>>,
                                              <<"tag", JStr("block")>> >>)>>)>>,
            <<"routing", JObj(<< <<"domainStrategy", JStr("AsIs")>>,
                                 <<"rules", JList(<<>>)>> >>)>> >>)

\* singbox_export(servers, [], None, None, True): a function of the servers
\* alone, one outbound for each.
singbox_export(servers) ==
    Obj1("outbounds",
         JList([i \in 1..Len(servers) |->
                   JObj(<< <<"type", JStr(servers[i].protocol)>>,
                           <<"server", JStr(servers[i].address)>>,
                           <<"server_port", JNum(servers[i].port)>> >>)]))

RECURSIVE ApplyOptions(_, _, _, _)
\* if "inbounds" in options: config["inbounds"] = options["inbounds"]; the
\* same for "dns" and "route"
ApplyOptions(kv, options, names, i) ==
    IF i > Len(names) THEN kv
    ELSE ApplyOptions(IF HasKey(options, names[i])
                      THEN SetKey(kv, names[i], Lookup(options, names[i])) ELSE kv,
                      options, names, i + 1)

\* _generate_singbox_config
generate_singbox_config(servers, options) ==
    LET config == singbox_export(servers) IN
    IF PyTruthy(options)
    THEN JObj(ApplyOptions(config.kv, options, <<"inbounds", "dns", "route">>, 1))
    ELSE config

\* _generate_client_config
generate_client_config(servers, client_type, options) ==
    CASE client_type = "sing-box" -> Ok(generate_singbox_config(servers, options))
      [] client_type = "clash" -> Ok(generate_clash_config(servers, options))
      [] client_type = "xray" -> Ok(generate_xray_config(servers, options))
      [] client_type = "mihomo" -> Ok(generate_mihomo_config(servers, options))
      [] OTHER -> Raise("ValueError: Unsupported client type")

(***************************************************************************)
(* The export framework: generate_config.                                  *)
(***************************************************************************)
\* supported clients without mihomo
supported_clients_without_mihomo == <<"sing-box", "clash", "xray">>

\* self.supported_clients
supported_clients == <<"sing-box", "clash", "xray", "mihomo">>

\* client_type in self.supported_clients
IsSupported(client_type) ==
    \E i \in 1..Len(supported_clients) : supported_clients[i] = client_type

\* metadata whose total is the number of servers passed in
generate_metadata_total_is_filtered(servers, subscription_url, options) ==
    LET excluded_count ==
            IF PyTruthy(options) /\ HasKey(options, "exclude_servers")
            THEN Len(Lookup(options, "exclude_servers").items) ELSE 0
    IN JObj(<< <<"source", JStr(subscription_url)>>,
               <<"generator", JStr("sboxmgr-1.5.0")>>,
               <<"checksum", JStr("")>>,
               <<"subscription_info",
                 JObj(<< <<"total_servers", JNum(Len(servers))>>,
                         <<"filtered_servers", JNum(Len(servers))>>,
                         <<"excluded_servers", JNum(excluded_count)>> >>)>> >>)

\* _generate_metadata
generate_metadata(servers, subscription_url, options) ==
    LET excluded_count ==
            IF PyTruthy(options) /\ HasKey(options, "exclude_servers")
            THEN Len(Lookup(options, "exclude_servers").items) ELSE 0
    IN JObj(<< <<"source", JStr(subscription_url)>>,
               <<"generator", JStr("sboxmgr-1.5.0")>>,
               <<"checksum", JStr("")>>,
               <<"subscription_info",
                 JObj(<< <<"total_servers", JNum(Len(servers) + excluded_count)>>,
                         <<"filtered_servers", JNum(Len(servers))>>,
                         <<"excluded_servers", JNum(excluded_count)>> >>)>> >>)

\* datetime.now(timezone.utc).isoformat(): the clock reading, written out
isoformat(t) == JStr(ToString(t))

\* The config literal of generate_config: the standardized structure, with
\* the metadata as _generate_metadata returns it.
create_structure(a, data, t) ==
    JObj(<< <<"client", JStr(a.client_type)>>,
            <<"version", IF PyTruthy(a.client_version) THEN a.client_version
                         ELSE JStr("1.0.0")>>,
            <<"created_at", isoformat(t)>>,
            <<"config", data>>,
            <<"metadata", generate_metadata(a.servers, a.subscription_url, a.options)>> >>)

\* The hexadecimal digest as the str stored in a document.
HexStr(checksum) == JStr(ToString(checksum))

\* config["metadata"]["checksum"] = checksum
SetChecksum(d, checksum) ==
    JObj(SetKey(d.kv, "metadata",
                JObj(SetKey(Lookup(d, "metadata").kv, "checksum", HexStr(checksum)))))

\* the checksum of the whole document put into its metadata
add_checksum_of_document(d, data) == SetChecksum(d, calculate_checksum(d))

\* config["metadata"]["checksum"] = self._calculate_checksum(config_data)
add_checksum(d, data) == SetChecksum(d, calculate_checksum(data))

(***************************************************************************)
(* The export framework in use: one caller, one call at a time.            *)
(***************************************************************************)
MaxServers == 2
MaxClock == 1

\* Parsed servers: the two of the tests, a trojan server, a vmess server
\* without the optional attributes, and one of a protocol no client has.
ServerSet ==
    {[name |-> "test-vmess", protocol |-> "vmess", address |-> "example.com",
      port |-> 443, uuid |-> "12345678-1234-1234-1234-123456789012",
      security |-> "auto", network |-> "ws", tls |-> TRUE],
     [name |-> "test-ss", protocol |-> "ss", address |-> "example2.com",
      port |-> 8388, security |-> "aes-256-gcm", password |-> "password123"],
     [name |-> "test-trojan", protocol |-> "trojan", address |-> "example3.com",
      port |-> 443, password |-> "password123"],
     [name |-> "plain-vmess", protocol |-> "vmess", address |-> "example.com",
      port |-> 80, uuid |-> "12345678-1234-1234-1234-123456789012"],
     [name |-> "test-http", protocol |-> "http", address |-> "example4.com",
      port |-> 8080]}

ExportClients == {"sing-box", "clash", "xray", "mihomo", "unsupported"}

StrList(names) == JList([i \in 1..Len(names) |-> JStr(names[i])])

\* options: None, no option, exclusions, inclusions, sing-box inbounds
OptionSet ==
    {JNull, JObj(<<>>),
     Obj1("exclude_servers", StrList(<<>>)),
     Obj1("exclude_servers", StrList(<<"server1">>)),
     JObj(<< <<"exclude_servers", StrList(<<"server1", "server2">>)>>,
             <<"include_servers", StrList(<<"test-vmess">>)>> >>),
     Obj1("include_servers", StrList(<<"test-vmess">>)),
     Obj1("inbounds", JList(<<Obj1("listen_port", JNum(7890))>>))}

ArgSet ==
    [servers : BoundedSeq(ServerSet, MaxServers),
     client_type : ExportClients,
     subscription_url : {"https://example.com/subscription"},
     client_version : {JNull, JStr("1.8.0")},
     options : OptionSet]

InitExport == Init /\ ~dirExists

\* framework.generate_config(servers, client_type, subscription_url, ...)
Generate ==
    /\ gpc = "idle"
    /\ \E a \in ArgSet : args' = a
    /\ gpc' = "called"
    /\ UNCHANGED <<gen_data, gen_config, raised, now, sums, cli>>
    /\ UNCHANGED validatorVars

\* if client_type not in self.supported_clients: raise ValueError(...)
CheckClientType ==
    /\ gpc = "called"
    /\ IF IsSupported(args.client_type)
       THEN gpc' = "checked" /\ raised' = raised
       ELSE gpc' = "raised" /\ raised' = "ValueError: Unsupported client type"
    /\ UNCHANGED <<args, gen_data, gen_config, now, sums, cli>>
    /\ UNCHANGED validatorVars

\* config_data = self._generate_client_config(servers, client_type, options)
GenerateClientConfig ==
    /\ gpc = "checked"
    /\ LET r == generate_client_config(args.servers, args.client_type, args.options) IN
       IF r.ok
       THEN gen_data' = r.val /\ gpc' = "generated" /\ raised' = raised
       ELSE gen_data' = gen_data /\ gpc' = "raised" /\ raised' = r.exc
    /\ UNCHANGED <<args, gen_config, now, sums, cli>>
    /\ UNCHANGED validatorVars

\* config = {"client": ..., "created_at": ..., "config": config_data,
\*           "metadata": self._generate_metadata(...)}
CreateStructure ==
    /\ gpc = "generated"
    /\ gen_config' = create_structure(args, gen_data, now)
    /\ gpc' = "stamped"
    /\ UNCHANGED <<args, gen_data, raised, now, sums, cli>>
    /\ UNCHANGED validatorVars

\* config["metadata"]["checksum"] = self._calculate_checksum(config_data)
AddChecksum ==
    /\ gpc = "stamped"
    /\ gen_config' = add_checksum(gen_config, gen_data)
    /\ gpc' = "checksummed"
    /\ UNCHANGED <<args, gen_data, raised, now, sums, cli>>
    /\ UNCHANGED validatorVars

\* return config
Return ==
    /\ gpc = "checksummed"
    /\ gpc' = "returned"
    /\ UNCHANGED <<args, gen_data, gen_config, raised, now, sums, cli>>
    /\ UNCHANGED validatorVars

\* framework._calculate_checksum, for each of two documents
Checksum ==
    /\ gpc = "idle"
    /\ \E a, b \in ChecksumDocs :
          sums' = [a |-> a, b |-> b, checksum_a |-> calculate_checksum(a),
                   checksum_b |-> calculate_checksum(b)]
    /\ gpc' = "summed"
    /\ UNCHANGED <<args, gen_data, gen_config, raised, now, cli>>
    /\ UNCHANGED validatorVars

\* The caller takes what the call gave and goes on.
Finish ==
    /\ gpc \in {"returned", "raised", "summed"}
    /\ gpc' = "idle"
    /\ args' = NoCall
    /\ gen_data' = NoCall
    /\ gen_config' = NoCall
    /\ raised' = NoCall
    /\ sums' = NoCall
    /\ cli' = NoCall
    /\ UNCHANGED now
    /\ UNCHANGED validatorVars

\* Time passes.
Tick ==
    /\ now < MaxClock
    /\ now' = now + 1
    /\ UNCHANGED <<gpc, args, gen_data, gen_config, raised, sums, cli>>
    /\ UNCHANGED validatorVars

(***************************************************************************)
(* The CLI command "generate": the servers parsed from the subscription    *)
(* are filtered by --exclude and --include, and the framework is called    *)
(* with what is left.                                                      *)
(***************************************************************************)
\* An option of type Optional[str]: None, or a string, held as the pieces
\* between its commas (what split(",") gives; the empty string has one
\* empty piece).
NoArg == [given |-> FALSE]
Arg(pieces) == [given |-> TRUE, pieces |-> pieces]

\* bool(arg): None and the empty string are falsy
ArgTruthy(a) == a.given /\ a.pieces # <<"">>

\* s.strip(), on the pieces of the model
strip(s) ==
    CASE s = " test-ss" -> "test-ss"
      [] s = " " -> ""
      [] OTHER -> s

\* [s.strip() for s in arg.split(",") if s.strip()]
NameList(pieces) ==
    SelectSeq([i \in 1..Len(pieces) |-> strip(pieces[i])], LAMBDA s : s # "")

SeqToSet(q) == {q[i] : i \in 1..Len(q)}

\* if exclude: exclude_list = [...]; exclude_list.extend(get_excluded_servers());
\* servers = [s for s in servers if s.name not in exclude_list]
apply_exclusions(servers, exclude, excluded_servers) ==
    IF ArgTruthy(exclude)
    THEN LET exclude_list == NameList(exclude.pieces) \o excluded_servers IN
         SelectSeq(servers, LAMBDA s : s.name \notin SeqToSet(exclude_list))
    ELSE servers

\* if include: servers = [s for s in servers if s.name in include_list]
apply_inclusions(servers, include) ==
    IF ArgTruthy(include)
    THEN SelectSeq(servers, LAMBDA s : s.name \in SeqToSet(NameList(include.pieces)))
    ELSE servers

\* options = {}; if exclude: options["exclude_servers"] = [...];
\* if include: options["include_servers"] = [...]
prepare_options(exclude, include) ==
    JObj((IF ArgTruthy(exclude)
          THEN << <<"exclude_servers", StrList(NameList(exclude.pieces))>> >> ELSE <<>>)
         \o (IF ArgTruthy(include)
             THEN << <<"include_servers", StrList(NameList(include.pieces))>> >> ELSE <<>>))

\* --exclude: not given, empty, blank, one name, two names with a space
\* after the comma, a name no server has
ExcludeArgs ==
    {NoArg, Arg(<<"">>), Arg(<<" ">>), Arg(<<"test-vmess">>),
     Arg(<<"test-vmess", " test-ss">>), Arg(<<"nobody">>)}
IncludeArgs == {NoArg, Arg(<<"test-vmess">>)}

\* what get_excluded_servers() gives: the persistent exclusion list
PersistentExclusions == {<<>>, <<"test-trojan">>}
CliClients == {"clash"}

\* what parse_subscription gives: servers the arguments can name
ParsedServers == {s \in ServerSet : s.name \in {"test-vmess", "test-ss", "test-trojan"}}

\* generate_json_config, up to the call of framework.generate_config
GenerateJsonConfig ==
    /\ gpc = "idle"
    /\ \E parsed \in BoundedSeq(ParsedServers, MaxServers), exclude \in ExcludeArgs,
          include \in IncludeArgs, excluded_servers \in PersistentExclusions,
          client_type \in CliClients :
          LET remaining == apply_exclusions(parsed, exclude, excluded_servers) IN
          /\ cli' = [parsed |-> parsed, exclude |-> exclude, include |-> include,
                     excluded_servers |-> excluded_servers, remaining |-> remaining]
          /\ args' = [servers |-> apply_inclusions(remaining, include),
                      client_type |-> client_type,
                      subscription_url |-> "https://example.com/subscription",
                      client_version |-> JNull,
                      options |-> prepare_options(exclude, include)]
    /\ gpc' = "called"
    /\ UNCHANGED <<gen_data, gen_config, raised, now, sums>>
    /\ UNCHANGED validatorVars

NextExport ==
    \/ Generate \/ CheckClientType \/ GenerateClientConfig \/ CreateStructure
    \/ AddChecksum \/ Return \/ Checksum \/ Finish \/ Tick \/ GenerateJsonConfig

SpecExport == InitExport /\ [][NextExport]_vars

(***************************************************************************)
(* Properties of the checksum.                                             *)
(***************************************************************************)
\* C15: two documents that are the same JSON value, with keys in any order,
\* get the same checksum; two that differ in a key or a value get different
\* checksums; a checksum is 64 characters of 0-9a-f.
C15_ChecksumCanonical ==
    gpc = "summed" =>
        /\ JsonEqual(sums.a, sums.b) <=> sums.checksum_a = sums.checksum_b
        /\ sums.checksum_a.length = 64
        /\ sums.checksum_a.alphabet = "0123456789abcdef"

\* Two documents with the same fields in different orders, at both depths,
\* got one checksum.
C15_Witness ==
    /\ gpc = "summed"
    /\ sums.a = JObj(<< <<"x", JObj(<< <<"a", JNum(1)>>, <<"B", JNum(2)>> >>)>>,
                        <<"y", JNull>> >>)
    /\ sums.b = JObj(<< <<"y", JNull>>,
                        <<"x", JObj(<< <<"B", JNum(2)>>, <<"a", JNum(1)>> >>)>> >>)
    /\ sums.checksum_a = sums.checksum_b

(***************************************************************************)
(* Properties of generate_config.                                          *)
(***************************************************************************)
Metadata(d) == Lookup(d, "metadata")
StoredChecksum(d) == Lookup(Metadata(d), "checksum")

\* The document generate_config returns for arguments a when the clock
\* reads t.
GeneratedDocument(a, t) ==
    LET data == generate_client_config(a.servers, a.client_type, a.options).val IN
    add_checksum(create_structure(a, data, t), data)

\* C16: the client config exists before the metadata, the metadata is stamped
\* with an empty checksum placeholder, and the checksum then stored is that
\* of the client config section alone: never the placeholder, and the same
\* as in the document of a later call with the same servers, client type
\* and options but another version and source.
C16_ChecksumOfConfigSection ==
    /\ gpc = "generated" => (gen_data # NoCall /\ gen_config = NoCall)
    /\ gpc = "stamped" =>
          /\ Lookup(gen_config, "config") = gen_data
          /\ StoredChecksum(gen_config) = JStr("")
    /\ gpc = "checksummed" =>
          /\ Lookup(gen_config, "config") = gen_data
          /\ StoredChecksum(gen_config) = HexStr(calculate_checksum(Lookup(gen_config, "config")))
          /\ StoredChecksum(gen_config) # JStr("")
    /\ gpc = "returned" =>
          StoredChecksum(GeneratedDocument(
              [args EXCEPT !.client_version = JStr("2.0.0"), !.subscription_url = "unknown"],
              now + 1))
            = StoredChecksum(gen_config)

\* A document returned for two servers after the clock moved.
C16_Witness ==
    /\ gpc = "returned"
    /\ now = 1
    /\ args.client_type = "clash"
    /\ Len(args.servers) = 2
    /\ args.client_version # JNull
    /\ StoredChecksum(gen_config) = HexStr(calculate_checksum(gen_data))
    /\ Lookup(gen_config, "created_at") = isoformat(1)

SubscriptionInfo(d) == Lookup(Metadata(d), "subscription_info")

\* The number of entries of options.exclude_servers, 0 without it.
ExcludedCount(options) ==
    IF options.t = "obj" /\ HasKey(options, "exclude_servers")
    THEN Len(Lookup(options, "exclude_servers").items) ELSE 0

\* C17: in every document generate_config built, subscription_info has
\* filtered_servers = the number of servers passed in, excluded_servers = the
\* number of entries of options.exclude_servers (0 without options or
\* without that entry), and total_servers = their sum.
C17_ServerCounts ==
    gpc \in {"stamped", "checksummed", "returned"} =>
        LET info == SubscriptionInfo(gen_config) IN
        /\ Lookup(info, "filtered_servers") = JNum(Len(args.servers))
        /\ Lookup(info, "excluded_servers") = JNum(ExcludedCount(args.options))
        /\ Lookup(info, "total_servers").n
              = Lookup(info, "filtered_servers").n + Lookup(info, "excluded_servers").n

\* A returned document for two servers and two exclusions.
C17_Witness ==
    /\ gpc = "returned"
    /\ Len(args.servers) = 2
    /\ ExcludedCount(args.options) = 2
    /\ Lookup(SubscriptionInfo(gen_config), "total_servers") = JNum(4)

C17_NoOptionsReached ==
    /\ gpc = "returned"
    /\ args.options = JNull
    /\ Len(args.servers) = 1
    /\ Lookup(SubscriptionInfo(gen_config), "total_servers") = JNum(1)

InCall == gpc \notin {"idle", "summed"}

\* C18: for a client type outside sing-box, clash, xray, mihomo, whatever the
\* servers and options, generate_config raises ValueError "Unsupported client
\* type" with no client config and no document made; for a client type among
\* the four it does not raise, and the document it returns has that client
\* type in its client field.
C18_UnsupportedClientRaises ==
    InCall =>
        /\ args.client_type \notin SupportedClients =>
              /\ gpc \in {"called", "raised"}
              /\ gen_data = NoCall /\ gen_config = NoCall
              /\ gpc = "raised" => raised = "ValueError: Unsupported client type"
        /\ args.client_type \in SupportedClients =>
              /\ gpc # "raised"
              /\ gpc = "returned" => Lookup(gen_config, "client") = JStr(args.client_type)

\* The call with two servers, options and an unsupported client type raised.
C18_Witness ==
    /\ gpc = "raised"
    /\ args.client_type = "unsupported"
    /\ Len(args.servers) = 2
    /\ args.options # JNull
    /\ raised = "ValueError: Unsupported client type"
    /\ gen_data = NoCall

C18_ReturnedReached ==
    /\ gpc = "returned"
    /\ args.client_type = "mihomo"
    /\ Lookup(gen_config, "client") = JStr("mihomo")

(***************************************************************************)
(* The order of the errors list.                                           *)
(***************************************************************************)
IsStructural(e) == e.msg \in {"Validation error", "Schema error", "Unexpected error"}
IsSemantic(e) ==
    e.msg \in {"configuration must have at least one", "Invalid port",
               "references undefined proxy"}

PortEntries == SelectSeq(Errors, LAMBDA e : e.msg = "Invalid port")
ReferenceEntries == SelectSeq(Errors, LAMBDA e : e.msg = "references undefined proxy")

\* The undefined references of one group, in member order.
UndefinedOf(group) ==
    LET undefined == SelectSeq(MemberList(group), LAMBDA m : m \notin DefinedNames) IN
    [j \in 1..Len(undefined) |-> UndefinedProxy(Lookup(group, "name"), undefined[j])]

RECURSIVE UndefinedFrom(_)
\* The undefined references of the document from group g on, in group order.
UndefinedFrom(g) ==
    IF g > Len(GroupList) THEN <<>> ELSE UndefinedOf(GroupList[g]) \o UndefinedFrom(g + 1)

\* C19: in every returned errors list the structural entry, if any, is
\* before every semantic entry; the missing-list entry is before every other
\* semantic entry; port errors are in ascending inbound index; undefined-
\* reference errors are in group order and, within a group, member order.
C19_ErrorOrder ==
    (ReturnedCall /\ trace.parsed /\ Resolved) =>
        /\ \A i, j \in 1..Len(Errors) :
              /\ (IsStructural(Errors[j]) /\ IsSemantic(Errors[i])) => j < i
              /\ (Errors[j].msg = "configuration must have at least one"
                    /\ IsSemantic(Errors[i]) /\ i # j) => j < i
        /\ \A k \in 1..(Len(PortEntries) - 1) :
              PortEntries[k].inbound < PortEntries[k + 1].inbound
        /\ Client \in {"clash", "mihomo"} => ReferenceEntries = UndefinedFrom(1)

\* A sing-box result with the structural entry, the missing-list entry and
\* two port errors.
C19_Witness ==
    /\ ReturnedCall /\ Client = "sing-box"
    /\ Len(Errors) = 4
    /\ Errors[1].msg = "Validation error"
    /\ Errors[2] = MissingList("sing-box", "outbound")
    /\ Errors[3] = InvalidPort(JNum(0), 0)
    /\ Errors[4] = InvalidPort(JNum(65536), 1)

\* A clash result with the missing-list entry and an undefined reference in
\* each of two groups.
C19_GroupOrderReached ==
    /\ ReturnedCall /\ Client = "clash"
    /\ Errors = <<MissingList("clash", "proxy"),
                  UndefinedProxy(JStr("g1"), JStr("n2")),
                  UndefinedProxy(JStr("g2"), JStr("n1"))>>

(***************************************************************************)
(* The outcome of the structural step.                                     *)
(***************************************************************************)
StructuralEntries == SelectSeq(Errors, IsStructural)
ResolvedSchema == trace.lookup.schema

\* The schema is defective: it is no valid schema, or it refers to a schema
\* that cannot be found.
SchemaDefect ==
    \/ ~SchemaWellFormed(ResolvedSchema)
    \/ ResolvedSchema.t = "obj" /\ HasKey(ResolvedSchema, "$ref")

\* C20: each call that reaches the structural step gets one of four
\* outcomes: no structural entry (the data conforms), or exactly one entry,
\* "Validation error" when the data violates a valid schema however many
\* keywords it violates, "Schema error" when the schema is no valid schema,
\* "Unexpected error" otherwise; a defective schema never gives a
\* "Validation error" entry, and valid is true only when there is no entry.
C20_StructuralOutcome ==
    (ReturnedCall /\ trace.parsed /\ Resolved) =>
        /\ Len(StructuralEntries) <= 1
        /\ StructuralEntries = <<>> <=>
              (~SchemaDefect /\ Violations(Doc, ResolvedSchema) = {})
        /\ (~SchemaDefect /\ Violations(Doc, ResolvedSchema) # {}) =>
              (Len(StructuralEntries) = 1 /\ StructuralEntries[1].msg = "Validation error")
        /\ ~SchemaWellFormed(ResolvedSchema) =>
              (Len(StructuralEntries) = 1 /\ StructuralEntries[1].msg = "Schema error")
        /\ (SchemaWellFormed(ResolvedSchema) /\ SchemaDefect) =>
              (Len(StructuralEntries) = 1 /\ StructuralEntries[1].msg = "Unexpected error")
        /\ trace.result.valid <=> StructuralEntries = <<>>

\* A document that violates two keywords of its schema got one entry.
C20_Witness ==
    /\ ReturnedCall /\ trace.parsed /\ Resolved
    /\ ~SchemaDefect
    /\ Cardinality(Violations(Doc, ResolvedSchema)) = 2
    /\ Len(StructuralEntries) = 1
    /\ StructuralEntries[1].msg = "Validation error"
    /\ ~trace.result.valid

C20_SchemaErrorReached ==
    /\ ReturnedCall /\ trace.parsed /\ Resolved
    /\ ~SchemaWellFormed(ResolvedSchema)
    /\ StructuralEntries = <<SchemaErrorEntry("metaschema")>>

(***************************************************************************)
(* The clash rule and the mihomo rule on the same document.                *)
(***************************************************************************)
\* The entry as the mihomo rule words it: the missing-list entry names the
\* client, every other entry is the same.
AsMihomo(e) ==
    IF e.msg = "configuration must have at least one" THEN [e EXCEPT !.client = "mihomo"]
    ELSE e

\* C21 as stated: on every document the clash rule and the mihomo rule give
\* equal results.
C21_SameResult ==
    (Done /\ trace.parsed) =>
        validate_clash_semantics(Doc) = validate_mihomo_semantics(Doc)

\* C21: on every document the two rules raise the same exception or both
\* return, with the same number of entries in the same order; the undefined-
\* reference entries are identical, and the missing-list entry differs only
\* in the client it names.
C21_SameRuleUpToClientName ==
    (Done /\ trace.parsed) =>
        LET c == validate_clash_semantics(Doc)
            m == validate_mihomo_semantics(Doc)
        IN /\ c.ok = m.ok
           /\ ~c.ok => c.exc = m.exc
           /\ c.ok =>
                 /\ Len(c.val) = Len(m.val)
                 /\ \A i \in 1..Len(c.val) : m.val[i] = AsMihomo(c.val[i])
                 /\ SelectSeq(c.val, LAMBDA e : e.msg = "references undefined proxy")
                      = SelectSeq(m.val, LAMBDA e : e.msg = "references undefined proxy")

\* A mihomo call on a document without proxies whose groups refer to two
\* undefined names: the rules differ in the first entry only.
C21_Witness ==
    /\ ReturnedCall /\ trace.parsed /\ Client = "mihomo"
    /\ validate_mihomo_semantics(Doc) =
          Ok(<<MissingList("mihomo", "proxy"),
               UndefinedProxy(JStr("g1"), JStr("n2")),
               UndefinedProxy(JStr("g2"), JStr("n1"))>>)
    /\ validate_clash_semantics(Doc) =
          Ok(<<MissingList("clash", "proxy"),
               UndefinedProxy(JStr("g1"), JStr("n2")),
               UndefinedProxy(JStr("g2"), JStr("n1"))>>)

\* Both rules raise on the same document.
C21_BothRaiseReached ==
    /\ Done /\ trace.parsed /\ Client = "mihomo"
    /\ ~validate_mihomo_semantics(Doc).ok
    /\ validate_clash_semantics(Doc) = validate_mihomo_semantics(Doc)

(***************************************************************************)
(* get_supported_clients.                                                  *)
(***************************************************************************)
Constructed == pc \in {"ready", "done"}
SupportedList == get_supported_clients(schemas)
InSupportedList(v) == \E i \in 1..Len(SupportedList) : SupportedList[i] = v

\* validate_config resolves a schema for the string, with the directory as
\* it is.
ResolvesFor(name) ==
    LET lookup == get_schema_for_client(schemas, dirExists, files, name) IN
    lookup.found /\ PyTruthy(lookup.schema)

\* C22: every entry get_supported_clients returns is a client-type string
\* for which validate_config resolves a schema, and every client type whose
\* schema was loaded into the index at construction is in the list.
C22_SupportedClients ==
    Constructed =>
        /\ \A i \in 1..Len(SupportedList) :
              /\ SupportedList[i].t = "str"
              /\ ResolvesFor(SupportedList[i].s)
        /\ \A c \in SupportedClients :
              IndexHas(schemas, JStr(URI(c))) => InSupportedList(JStr(c))

\* What the list holds: the keys of the index, in insertion order, each the
\* $id of a loaded file or its stem; no client type is among them.
C22_ReturnsIndexKeys ==
    Constructed =>
        /\ Len(SupportedList) = Len(schemas)
        /\ \A i \in 1..Len(SupportedList) :
              /\ SupportedList[i] = schemas[i][1]
              /\ SupportedList[i] \in
                    {JStr(URI(c)) : c \in SupportedClients}
                      \cup {JStr(Stem(n)) : n \in FileNames}
              /\ SupportedList[i] \notin {JStr(c) : c \in ClientTypes}

\* A validator that loaded the sing-box schema: sing-box resolves from the
\* index, and the list holds the schema's identifier, for which nothing
\* resolves.
C22_IdentifierListed ==
    /\ Constructed
    /\ SupportedList = <<JStr("https://schemas.subbox.dev/sing-box.schema.json")>>
    /\ ResolvesFor("sing-box")
    /\ ~ResolvesFor("https://schemas.subbox.dev/sing-box.schema.json")

(***************************************************************************)
(* When "No schema found" is reported.                                     *)
(***************************************************************************)
\* Resolution gave a schema document: a JSON object or a boolean.
YieldedSchema == trace.lookup.found /\ trace.lookup.schema.t \in {"obj", "bool"}

\* C23: "No schema found" is reported only when resolution found nothing:
\* whenever the index or the fallback file yields a schema document, the
\* empty schema {} included, the call goes on to the structural and the
\* semantic step.
C23_NoSchemaOnlyWhenNothingFound ==
    (Done /\ trace.parsed /\ YieldedSchema) =>
        /\ trace.structural # "skipped"
        /\ trace.outcome = "returned" => ~InErrors(NoSchemaFound(Client))

\* What the code does: it reports "No schema found", and skips both steps,
\* exactly when resolution gave nothing or gave a falsy value.
C23_NoSchemaIffFalsy ==
    (ReturnedCall /\ trace.parsed) =>
        /\ InErrors(NoSchemaFound(Client)) <=> ~Resolved
        /\ ~Resolved =>
              /\ Errors = <<NoSchemaFound(Client)>>
              /\ trace.structural = "skipped" /\ trace.semantic = "skipped"

\* The fallback file holds {} and the call reports that no schema was found.
C23_EmptySchemaRejected ==
    /\ ReturnedCall /\ trace.parsed /\ Client = "sing-box"
    /\ trace.lookup.found
    /\ trace.lookup.schema = JObj(<<>>)
    /\ trace.lookup.reads = <<"sing_box.schema.json">>
    /\ Errors = <<NoSchemaFound("sing-box")>>
    /\ ~trace.result.valid

(***************************************************************************)
(* Generated clash and mihomo configs under the validator's reference rule.*)
(***************************************************************************)
ClashProtocols == {"vmess", "ss", "trojan"}

\* The places, in the servers list, of the servers clash has a proxy for.
ConvertedPlaces ==
    SelectSeq([i \in 1..Len(args.servers) |-> i],
              LAMBDA i : args.servers[i].protocol \in ClashProtocols)

GeneratedProxies == Lookup(gen_data, "proxies").items
GeneratedGroups == Lookup(gen_data, "proxy-groups").items
GeneratedNames == [k \in 1..Len(GeneratedProxies) |-> Lookup(GeneratedProxies[k], "name")]

ClashGenerated ==
    /\ gpc \in {"generated", "stamped", "checksummed", "returned"}
    /\ args.client_type \in {"clash", "mihomo"}

C24_SameServerTwiceReached ==
    /\ ClashGenerated /\ args.client_type = "mihomo"
    /\ Len(args.servers) = 2
    /\ args.servers[1] = args.servers[2]
    /\ GeneratedNames = <<JStr("server-0"), JStr("server-1")>>
    /\ validate_mihomo_semantics(gen_data) = Ok(<<>>)

\* A mihomo config for servers of no clash protocol has no proxy and no
\* group.
C24_NoGroupReached ==
    /\ ClashGenerated /\ args.client_type = "mihomo"
    /\ Len(args.servers) = 1
    /\ GeneratedProxies = <<>> /\ GeneratedGroups = <<>>
    /\ validate_mihomo_semantics(gen_data) = Ok(<<MissingList("mihomo", "proxy")>>)

(***************************************************************************)
(* The CLI command "validate": the file is read and parsed, a validator is *)
(* made for the schema directory, and the result is printed.  The value is *)
(* what the command wrote and the status it exited with.                   *)
(***************************************************************************)
Line(text) == [line |-> text]
ItemLine(entry) == [line |-> "   - ", item |-> entry]

\* if result["valid"]: ... else: ...; raise typer.Exit(1)
print_result(result) ==
    IF result.valid
    THEN [stdout |-> <<Line("Configuration is valid")>>
                       \o (IF result.warnings # <<>>
                           THEN <<Line("Warnings:")>>
                                  \o [i \in 1..Len(result.warnings) |->
                                         ItemLine(result.warnings[i])]
                           ELSE <<>>),
          status |-> 0]
    ELSE [stdout |-> <<Line("Configuration is invalid"), Line("Errors:")>>
                       \o [i \in 1..Len(result.errors) |-> ItemLine(result.errors[i])],
          status |-> 1]

\* validate_json_config(config_file, client_type, schema_dir)
validate_json_config(idx, exists, dir, toks, client_type) ==
    LET config_data == json_loads(toks)
        t == validate_config(idx, exists, dir, DataInput(config_data.val), client_type)
    IN IF ~config_data.ok
       THEN [validated |-> FALSE, stdout |-> <<>>, stderr |-> <<Line("Invalid JSON")>>,
             status |-> 1]
       ELSE IF t.outcome = "raised"
       THEN [validated |-> FALSE, stdout |-> <<>>,
             stderr |-> <<[line |-> "Error", exc |-> t.exc]>>, status |-> 1]
       ELSE [validated |-> TRUE, result |-> t.result,
             stdout |-> print_result(t.result).stdout,
             stderr |-> IF print_result(t.result).status = 1
                        THEN <<[line |-> "Error", exc |-> "Exit"]>> ELSE <<>>,
             status |-> print_result(t.result).status]

\* The file the command reads: the text of the last call, or the document of
\* the last call written out.
ConfigFile == IF Input.kind = "text" THEN Input.toks ELSE Dump(Input.data)
CliRun == validate_json_config(schemas, dirExists, files, ConfigFile, Client)
Printed(l) == \E i \in 1..Len(CliRun.stdout) : CliRun.stdout[i] = l

\* C25: whenever the errors list of the validator's result is not empty the
\* command prints every error and exits with status 1, and it prints
\* "Configuration is valid" with status 0 only when the errors list is
\* empty.
C25_CliFaithful ==
    (Done /\ CliRun.validated) =>
        /\ CliRun.result.errors # <<>> =>
              /\ CliRun.status = 1
              /\ \A i \in 1..Len(CliRun.result.errors) :
                    Printed(ItemLine(CliRun.result.errors[i]))
        /\ (Printed(Line("Configuration is valid")) /\ CliRun.status = 0) =>
              CliRun.result.errors = <<>>

\* What the command does: it follows the valid flag alone.  A result that
\* is not valid has its errors printed in order and status 1; a result that
\* is valid gives "Configuration is valid" and status 0, whatever its errors;
\* a file that is no JSON, or a validator that raises, gives status 1.
C25_CliFollowsValidFlag ==
    Done =>
        /\ CliRun.status = 0 <=> (CliRun.validated /\ CliRun.result.valid)
        /\ (CliRun.validated /\ ~CliRun.result.valid) =>
              CliRun.stdout
                = <<Line("Configuration is invalid"), Line("Errors:")>>
                    \o [i \in 1..Len(CliRun.result.errors) |->
                           ItemLine(CliRun.result.errors[i])]
        /\ (CliRun.validated /\ CliRun.result.valid) =>
              CliRun.stdout = <<Line("Configuration is valid")>>
        /\ ~CliRun.validated => CliRun.stdout = <<>>

\* The file {} under a schema that accepts it: the result has the missing-
\* list error, and the command prints "Configuration is valid" and exits
\* with status 0.
C25_ValidPrintedWithErrors ==
    /\ Done /\ Client = "sing-box" /\ CliRun.validated
    /\ CliRun.result.errors = <<MissingList("sing-box", "outbound")>>
    /\ CliRun.stdout = <<Line("Configuration is valid")>>
    /\ CliRun.status = 0

(***************************************************************************)
(* The server counts of a document the generate command made.              *)
(***************************************************************************)
FromCli == cli # NoCall /\ gpc \in {"stamped", "checksummed", "returned"}

\* C26: in the generate command, for every parsed server list and every
\* --exclude and --include argument, total_servers is the number of servers
\* parsed before filtering, and excluded_servers is the number of servers
\* the exclusion step removed.
C26_CliServerCounts ==
    FromCli =>
        LET info == SubscriptionInfo(gen_config) IN
        /\ Lookup(info, "total_servers") = JNum(Len(cli.parsed))
        /\ Lookup(info, "excluded_servers")
              = JNum(Len(cli.parsed) - Len(cli.remaining))

\* What the counts are: excluded_servers is the number of names --exclude
\* gave, whatever the exclusion step removed, and total_servers is that
\* number plus the number of servers left after both filters.
C26_CountsOfNamesGiven ==
    FromCli =>
        LET info == SubscriptionInfo(gen_config)
            given == IF ArgTruthy(cli.exclude) THEN Len(NameList(cli.exclude.pieces)) ELSE 0
        IN /\ Lookup(info, "excluded_servers") = JNum(given)
           /\ Lookup(info, "filtered_servers") = JNum(Len(args.servers))
           /\ Lookup(info, "total_servers") = JNum(Len(args.servers) + given)

\* Two servers parsed, --exclude names a server that is not among them:
\* nothing is removed, and the document counts three servers, one excluded.
C26_NameWithoutServer ==
    /\ FromCli /\ gpc = "returned"
    /\ Len(cli.parsed) = 2
    /\ cli.exclude = Arg(<<"nobody">>)
    /\ ~cli.include.given
    /\ cli.remaining = cli.parsed
    /\ Lookup(SubscriptionInfo(gen_config), "total_servers") = JNum(3)
    /\ Lookup(SubscriptionInfo(gen_config), "excluded_servers") = JNum(1)
====
